---- MODULE Spec2Model ----
(***************************************************************************)
(* The control plane's ShardTable                                          *)
(* (quickwit-control-plane/src/model/shard_table.rs): the primary index    *)
(* table_entries (SourceUid -> ShardTableEntry), the secondary index       *)
(* ingester_shards (NodeId -> SourceUid -> set of ShardId), and the public *)
(* operations that mutate them.                                            *)
(***************************************************************************)
EXTENDS Integers, Sequences, FiniteSets, TLC

VARIABLES
    shard_table,        \* the ShardTable value: [table_entries, ingester_shards]
    debug_assertions,   \* cfg!(debug_assertions): fixed by the build
    panicked,           \* "none", or the panic that aborted the process
    now,                \* the monotonic clock read by the rate limiters, in seconds
    last,               \* the last public call: [op, ret]
    nops,               \* number of public calls made so far
    since_created,      \* per source the scaling specification created: the time of
                        \* its add_source, and per mode the acquires granted and
                        \* whether permits were released since
    serializer,         \* the IndexSerializer actor: where its handler stands, the
                        \* message it handles, the splits finalized so far
    packager_mailbox,   \* Mailbox<Packager>: is the packager there, and the
                        \* messages it was delivered, in order
    handled             \* per message the IndexSerializer handled: the message, the
                        \* messages handed to ctx.send_message, the reply

vars == <<shard_table, debug_assertions, panicked, now, last, nops, since_created,
          serializer, packager_mailbox, handled>>

\* The indexing pipeline's part of the state and the control plane's.
serializer_vars == <<serializer, packager_mailbox, handled>>
shard_table_vars == <<shard_table, debug_assertions, panicked, now, last, nops, since_created>>

---------------------------------------------------------------------------
(* Bounds of the model. *)

MaxShardId == 2     \* shard ids are 1..MaxShardId
MaxBatch == 2       \* longest Vec<Shard> / &[ShardId] / ShardInfos handed to a call
MaxRate == 1        \* largest gossiped ingestion rate
MaxPermits == 1     \* largest num_permits of one acquire / release
MaxOps == 2         \* public calls per behaviour
MaxScalingOps == 7  \* public calls per behaviour of the scaling specification
MaxNow == 66        \* the clock runs from 0 to MaxNow seconds
TickSeconds == 6    \* the clock is read every TickSeconds seconds
MaxPermitsAsked == 6 \* largest num_permits the claims about one call range over
MaxSplits == 2      \* most split builders in one IndexedSplitBatchBuilder
MaxHandled == 2     \* messages the IndexSerializer is sent

---------------------------------------------------------------------------
(* Identifiers. *)

NodeIds == {"n1", "n2"}
ShardIds == 1..MaxShardId
IndexUids ==
    { [index_id |-> "foo", incarnation |-> 0],
      [index_id |-> "foo", incarnation |-> 1],
      [index_id |-> "bar", incarnation |-> 0] }
IndexIds == {"foo", "bar"}
SourceIds == {"s0", "s1"}
\* The sources the calls address.
SourceUids ==
    { [index_uid |-> [index_id |-> "foo", incarnation |-> 0], source_id |-> "s0"],
      [index_uid |-> [index_id |-> "foo", incarnation |-> 1], source_id |-> "s0"],
      [index_uid |-> [index_id |-> "bar", incarnation |-> 0], source_id |-> "s0"] }
ShardStates == {"Open", "Unavailable", "Closed"}
ScalingModes == {"Up", "Down"}

\* IndexUid::index_id(): the human part of "index_id:incarnation".
index_id(index_uid) == index_uid.index_id

NoneVal == <<"None">>
Some(v) == <<"Some", v>>

---------------------------------------------------------------------------
(* Finite maps (FnvHashMap) as functions with a finite domain. *)

EmptyMap == [k \in {} |-> k]
Put(f, k, v) == [x \in (DOMAIN f) \cup {k} |-> IF x = k THEN v ELSE f[x]]
Without(f, K) == [x \in (DOMAIN f) \ K |-> f[x]]

---------------------------------------------------------------------------
(* Rate limiters (quickwit_common::rate_limiter): a token bucket.          *)

\* The scaling-up settings with twice the rate (10 permits per 60 s).
SCALING_UP_RATE_LIMITER_SETTINGS_TWICE ==
    [burst_limit |-> 5, rate_count |-> 10, rate_window |-> 60, refill_period |-> 12]

SCALING_UP_RATE_LIMITER_SETTINGS ==
    [burst_limit |-> 5, rate_count |-> 5, rate_window |-> 60, refill_period |-> 12]
SCALING_DOWN_RATE_LIMITER_SETTINGS ==
    [burst_limit |-> 1, rate_count |-> 1, rate_window |-> 60, refill_period |-> 60]

Min(a, b) == IF a <= b THEN a ELSE b

\* RateLimiter::from_settings: a full bucket, first refill one period from now.
from_settings(settings, t) ==
    [ settings |-> settings,
      available_permits |-> settings.burst_limit,
      refill_at |-> t + settings.refill_period ]

\* Tokens added per elapsed refill period.
refill_amount(settings) ==
    Min(settings.burst_limit,
        (settings.rate_count * settings.refill_period) \div settings.rate_window)

\* Refill from the wall clock: nothing before refill_at, then one increment per
\* period elapsed, saturated at burst_limit.
refill(limiter, t) ==
    IF t < limiter.refill_at
    THEN limiter
    ELSE LET periods == 1 + ((t - limiter.refill_at) \div limiter.settings.refill_period)
         IN [limiter EXCEPT
               !.available_permits =
                   Min(limiter.settings.burst_limit,
                       limiter.available_permits + periods * refill_amount(limiter.settings)),
               !.refill_at = limiter.refill_at + periods * limiter.settings.refill_period]

\* acquire(n) handing out what is left when fewer than n tokens are there.
acquire_partial(limiter, n, t) ==
    LET l == refill(limiter, t)
    IN IF l.available_permits >= n
       THEN [limiter |-> [l EXCEPT !.available_permits = l.available_permits - n], ok |-> TRUE]
       ELSE [limiter |-> [l EXCEPT !.available_permits = 0], ok |-> FALSE]

\* acquire(n) -> bool: refill first, then deduct n when n tokens are there.
acquire(limiter, n, t) ==
    LET l == refill(limiter, t)
    IN IF l.available_permits >= n
       THEN [limiter |-> [l EXCEPT !.available_permits = l.available_permits - n], ok |-> TRUE]
       ELSE [limiter |-> l, ok |-> FALSE]

\* release(n) without the saturation.
release_unsaturated(limiter, n) ==
    [limiter EXCEPT !.available_permits = limiter.available_permits + n]

\* release(n): add n tokens, saturated at burst_limit.
release(limiter, n) ==
    [limiter EXCEPT
       !.available_permits = Min(limiter.settings.burst_limit, limiter.available_permits + n)]

---------------------------------------------------------------------------
(* Shard, ShardEntry, ShardTableEntry.                                     *)

\* Shard::ingester_nodes(): the leader and the followers.
ingester_nodes(shard) == {shard.leader_id} \cup shard.follower_ids

is_open(shard) == shard.shard_state = "Open"
is_closed(shard) == shard.shard_state = "Closed"

\* impl From<Shard> for ShardEntry
ShardEntryFrom(shard) == [shard |-> shard, ingestion_rate |-> 0]

\* ShardTableEntry::default with the settings of the two limiters exchanged.
ShardTableEntryDefaultExchanged(t) ==
    [ shard_entries |-> EmptyMap,
      scaling_up_rate_limiter |-> from_settings(SCALING_DOWN_RATE_LIMITER_SETTINGS, t),
      scaling_down_rate_limiter |-> from_settings(SCALING_UP_RATE_LIMITER_SETTINGS, t) ]

\* impl Default for ShardTableEntry
ShardTableEntryDefault(t) ==
    [ shard_entries |-> EmptyMap,
      scaling_up_rate_limiter |-> from_settings(SCALING_UP_RATE_LIMITER_SETTINGS, t),
      scaling_down_rate_limiter |-> from_settings(SCALING_DOWN_RATE_LIMITER_SETTINGS, t) ]

\* The Vacant arm filtering the batch as from_shards does.
CollectOpenOrClosedShardEntries(shards) ==
    [ sid \in {shards[i].shard_id :
                 i \in {j \in DOMAIN shards : shards[j].shard_state \in {"Open", "Closed"}}} |->
        LET idx == {i \in DOMAIN shards : shards[i].shard_id = sid}
            lastIdx == CHOOSE i \in idx : \A j \in idx : j <= i
        IN ShardEntryFrom(shards[lastIdx]) ]

\* .map(|shard| (shard_id, shard.into())).collect() into a hash map: of two
\* shards with the same id the later one stays.
CollectShardEntries(shards) ==
    [ sid \in {shards[i].shard_id : i \in DOMAIN shards} |->
        LET idx == {i \in DOMAIN shards : shards[i].shard_id = sid}
            lastIdx == CHOOSE i \in idx : \A j \in idx : j <= i
        IN ShardEntryFrom(shards[lastIdx]) ]

\* from_shards without the filter on the shard state.
IsAnyShardState(shard) == shard.shard_state \in ShardStates

\* The filter of from_shards: matches!(shard_state, Open | Closed).
IsOpenOrClosed(shard) == shard.shard_state = "Open" \/ shard.shard_state = "Closed"

\* ShardTableEntry::from_shards
from_shards(shards, t) ==
    [ ShardTableEntryDefault(t) EXCEPT
        !.shard_entries = CollectShardEntries(SelectSeq(shards, IsOpenOrClosed)) ]

is_empty(table_entry) == DOMAIN table_entry.shard_entries = {}

---------------------------------------------------------------------------
(* ShardTable helpers.                                                     *)

ShardTableDefault == [table_entries |-> EmptyMap, ingester_shards |-> EmptyMap]

\* The mirror loop entering each shard under its leader only.
MirrorShardsOnLeaders(ingester_shards, source_uid, shards) ==
    LET nodesOf == {shards[i].leader_id : i \in DOMAIN shards}
        idsOn(n) == {shards[i].shard_id : i \in {j \in DOMAIN shards : shards[j].leader_id = n}}
    IN [ n \in (DOMAIN ingester_shards) \cup nodesOf |->
           LET old == IF n \in DOMAIN ingester_shards THEN ingester_shards[n] ELSE EmptyMap
               oldIds == IF source_uid \in DOMAIN old THEN old[source_uid] ELSE {}
           IN IF n \in nodesOf THEN Put(old, source_uid, oldIds \cup idsOn(n)) ELSE old ]

\* The loop shared by insert_newly_opened_shards and initialize_source_shards:
\* ingester_shards.entry(node).or_default().entry(source_uid).or_default()
\*     .insert(shard_id) for every node of every shard.
MirrorShards(ingester_shards, source_uid, shards) ==
    LET nodesOf == UNION {ingester_nodes(shards[i]) : i \in DOMAIN shards}
        idsOn(n) == {shards[i].shard_id :
                        i \in {j \in DOMAIN shards : n \in ingester_nodes(shards[j])}}
    IN [ n \in (DOMAIN ingester_shards) \cup nodesOf |->
           LET old == IF n \in DOMAIN ingester_shards THEN ingester_shards[n] ELSE EmptyMap
               oldIds == IF source_uid \in DOMAIN old THEN old[source_uid] ELSE {}
           IN IF n \in nodesOf THEN Put(old, source_uid, oldIds \cup idsOn(n)) ELSE old ]

\* remove_shard_from_ingesters_internal taking the shard id out of the sets of
\* every source on the nodes of the shard.
remove_shard_from_ingesters_of_any_source(source_uid, shard, ingester_shards) ==
    LET nodes == ingester_nodes(shard)
        present(n) == n \in DOMAIN ingester_shards /\ source_uid \in DOMAIN ingester_shards[n]
    IN [ ingester_shards |->
            [ n \in DOMAIN ingester_shards |->
                IF n \in nodes /\ present(n)
                THEN [ v \in DOMAIN ingester_shards[n] |->
                         ingester_shards[n][v] \ {shard.shard_id} ]
                ELSE ingester_shards[n] ],
         ok |-> \A n \in nodes : present(n) ]

\* remove_shard_from_ingesters_internal dropping a node that is left without
\* any shard.
remove_shard_from_ingesters_collecting(source_uid, shard, ingester_shards) ==
    LET nodes == ingester_nodes(shard)
        present(n) == n \in DOMAIN ingester_shards /\ source_uid \in DOMAIN ingester_shards[n]
        stripped == [ n \in DOMAIN ingester_shards |->
                        IF n \in nodes /\ present(n)
                        THEN [ingester_shards[n] EXCEPT ![source_uid] = @ \ {shard.shard_id}]
                        ELSE ingester_shards[n] ]
        emptied == {n \in DOMAIN stripped : \A u \in DOMAIN stripped[n] : stripped[n][u] = {}}
    IN [ ingester_shards |-> Without(stripped, emptied),
         ok |-> \A n \in nodes : present(n) ]

\* remove_shard_from_ingesters_internal: [ingester_shards, ok]; ok is FALSE when
\* the expect / unwrap on a missing node or source panics.
remove_shard_from_ingesters_internal(source_uid, shard, ingester_shards) ==
    LET nodes == ingester_nodes(shard)
        present(n) == n \in DOMAIN ingester_shards /\ source_uid \in DOMAIN ingester_shards[n]
    IN [ ingester_shards |->
            [ n \in DOMAIN ingester_shards |->
                IF n \in nodes /\ present(n)
                THEN [ingester_shards[n] EXCEPT ![source_uid] = @ \ {shard.shard_id}]
                ELSE ingester_shards[n] ],
         ok |-> \A n \in nodes : present(n) ]

\* The for loops over removed shards: pairs <<source_uid, shard>>.
RECURSIVE RemoveShardsFromIngesters(_, _)
RemoveShardsFromIngesters(pairs, ingester_shards) ==
    IF pairs = {}
    THEN [ingester_shards |-> ingester_shards, ok |-> TRUE]
    ELSE LET p == CHOOSE q \in pairs : TRUE
             one == remove_shard_from_ingesters_internal(p[1], p[2], ingester_shards)
             rest == RemoveShardsFromIngesters(pairs \ {p}, one.ingester_shards)
         IN [ingester_shards |-> rest.ingester_shards, ok |-> one.ok /\ rest.ok]

\* The (node, source_uid, shard_id) triples of table_entries.
TableTriples(self) ==
    { <<n, u, s>> \in NodeIds \X (DOMAIN self.table_entries) \X ShardIds :
        /\ s \in DOMAIN self.table_entries[u].shard_entries
        /\ n \in ingester_nodes(self.table_entries[u].shard_entries[s].shard) }

\* The (node, source_uid, shard_id) triples of ingester_shards.
IngesterTriples(self) ==
    UNION { UNION { { <<n, u, s>> : s \in self.ingester_shards[n][u] } :
                    u \in DOMAIN self.ingester_shards[n] } :
            n \in DOMAIN self.ingester_shards }

\* check_invariant: TRUE when no assertion of the walk fails.
check_invariant_passes(self) ==
    /\ \A u \in DOMAIN self.table_entries :
         \A s \in DOMAIN self.table_entries[u].shard_entries :
            /\ s = self.table_entries[u].shard_entries[s].shard.shard_id
            /\ u.index_uid = self.table_entries[u].shard_entries[s].shard.index_uid
    /\ \A t \in IngesterTriples(self) :
            /\ t[2] \in DOMAIN self.table_entries
            /\ t[3] \in DOMAIN self.table_entries[t[2]].shard_entries
            /\ t \in TableTriples(self)

\* self.check_invariant() at the end of a mutation: the panic it ends in.
check_invariant(self) ==
    IF debug_assertions /\ ~check_invariant_passes(self) THEN "check_invariant" ELSE "none"

Outcome(self, panic, ret) == [self |-> self, panic |-> panic, ret |-> ret]

---------------------------------------------------------------------------
(* The public operations, as functions of the table and the arguments.     *)
(* Each returns Outcome(table after, panic, return value).                 *)

SourceUidOf(index_uid, source_id) == [index_uid |-> index_uid, source_id |-> source_id]

\* add_source keeping the entry of a source that is already known
\* (entry().or_default() in place of insert()).
add_source_keeping_entry(self, index_uid, source_id, t) ==
    LET source_uid == SourceUidOf(index_uid, source_id)
        after == IF source_uid \in DOMAIN self.table_entries
                 THEN self
                 ELSE [self EXCEPT
                         !.table_entries = Put(@, source_uid, ShardTableEntryDefault(t))]
    IN Outcome(after, check_invariant(after), "unit")

\* add_source emptying the shards of a known source and keeping its limiters.
add_source_keeping_limiters(self, index_uid, source_id, t) ==
    LET source_uid == SourceUidOf(index_uid, source_id)
        table_entry == IF source_uid \in DOMAIN self.table_entries
                       THEN [self.table_entries[source_uid] EXCEPT !.shard_entries = EmptyMap]
                       ELSE ShardTableEntryDefault(t)
        after == [self EXCEPT !.table_entries = Put(@, source_uid, table_entry)]
    IN Outcome(after, check_invariant(after), "unit")

\* ShardTable::num_shards
RECURSIVE SumShardEntries(_, _)
SumShardEntries(table_entries, source_uids) ==
    IF source_uids = {}
    THEN 0
    ELSE LET u == CHOOSE x \in source_uids : TRUE
         IN Cardinality(DOMAIN table_entries[u].shard_entries)
              + SumShardEntries(table_entries, source_uids \ {u})

num_shards(self) == SumShardEntries(self.table_entries, DOMAIN self.table_entries)

\* ShardTable::list_shards_for_node
list_shards_for_node(self, ingester) ==
    IF ingester \in DOMAIN self.ingester_shards
    THEN Some(self.ingester_shards[ingester])
    ELSE NoneVal

\* ShardTable::list_shards: None, or the set of the entries of the source.
list_shards(self, source_uid) ==
    IF source_uid \in DOMAIN self.table_entries
    THEN Some({ self.table_entries[source_uid].shard_entries[s] :
                  s \in DOMAIN self.table_entries[source_uid].shard_entries })
    ELSE NoneVal

\* ShardTable::add_source
add_source(self, index_uid, source_id, t) ==
    LET source_uid == SourceUidOf(index_uid, source_id)
        after == [self EXCEPT
                    !.table_entries = Put(@, source_uid, ShardTableEntryDefault(t))]
    IN Outcome(after, check_invariant(after), "unit")

\* ShardTable::delete_source
delete_source(self, index_uid, source_id) ==
    LET source_uid == SourceUidOf(index_uid, source_id)
    IN IF source_uid \notin DOMAIN self.table_entries
       THEN Outcome(self, "none", "unit")
       ELSE LET shard_entries == self.table_entries[source_uid].shard_entries
                removed == RemoveShardsFromIngesters(
                               {<<source_uid, shard_entries[s].shard>> : s \in DOMAIN shard_entries},
                               self.ingester_shards)
                after == [table_entries |-> Without(self.table_entries, {source_uid}),
                          ingester_shards |-> removed.ingester_shards]
            IN IF ~removed.ok
               THEN Outcome(after, "inconsistent state", "unit")
               ELSE Outcome(after, check_invariant(after), "unit")

\* delete_index matching the first incarnation of the index only.
delete_index_first_incarnation(self, target_index_id) ==
    LET matching == {u \in DOMAIN self.table_entries :
                        u.index_uid = [index_id |-> target_index_id, incarnation |-> 0]}
        shards_removed ==
            UNION { { <<u, self.table_entries[u].shard_entries[s].shard>> :
                        s \in DOMAIN self.table_entries[u].shard_entries } : u \in matching }
        removed == RemoveShardsFromIngesters(shards_removed, self.ingester_shards)
    IN IF ~removed.ok
       THEN Outcome([self EXCEPT !.ingester_shards = removed.ingester_shards],
                    "inconsistent state", "unit")
       ELSE LET after == [table_entries |-> Without(self.table_entries, matching),
                          ingester_shards |-> removed.ingester_shards]
            IN Outcome(after, check_invariant(after), "unit")

\* ShardTable::delete_index
delete_index(self, target_index_id) ==
    LET matching == {u \in DOMAIN self.table_entries : index_id(u.index_uid) = target_index_id}
        shards_removed ==
            UNION { { <<u, self.table_entries[u].shard_entries[s].shard>> :
                        s \in DOMAIN self.table_entries[u].shard_entries } : u \in matching }
        removed == RemoveShardsFromIngesters(shards_removed, self.ingester_shards)
    IN IF ~removed.ok
       THEN Outcome([self EXCEPT !.ingester_shards = removed.ingester_shards],
                    "inconsistent state", "unit")
       ELSE LET after == [table_entries |-> Without(self.table_entries, matching),
                          ingester_shards |-> removed.ingester_shards]
            IN Outcome(after, check_invariant(after), "unit")

\* The Occupied arm taking the incoming shard in place of a stored shard that
\* is Closed.
InsertReplacingClosedShards(shard_entries, opened_shards) ==
    [ sid \in (DOMAIN shard_entries) \cup {opened_shards[i].shard_id : i \in DOMAIN opened_shards} |->
        LET idx == {i \in DOMAIN opened_shards : opened_shards[i].shard_id = sid}
        IN IF sid \in DOMAIN shard_entries
              /\ (idx = {} \/ shard_entries[sid].shard.shard_state # "Closed")
           THEN shard_entries[sid]
           ELSE ShardEntryFrom(opened_shards[CHOOSE i \in idx : \A j \in idx : i <= j]) ]

\* The Occupied arm with insert() in place of entry().or_insert(): an incoming
\* shard replaces the entry stored under its id.
InsertOverwritingShards(shard_entries, opened_shards) ==
    LET incoming == {opened_shards[i].shard_id : i \in DOMAIN opened_shards}
    IN [ sid \in (DOMAIN shard_entries) \cup incoming |->
           IF sid \in incoming
           THEN LET idx == {i \in DOMAIN opened_shards : opened_shards[i].shard_id = sid}
                    lastIdx == CHOOSE i \in idx : \A j \in idx : j <= i
                IN ShardEntryFrom(opened_shards[lastIdx])
           ELSE shard_entries[sid] ]

\* Entry::Occupied: shard_entries.entry(shard_id).or_insert(shard.into()) for each
\* opened shard in turn: a known id keeps its entry, of two new shards with the
\* same id the earlier one stays.
InsertUnknownShards(shard_entries, opened_shards) ==
    [ sid \in (DOMAIN shard_entries) \cup {opened_shards[i].shard_id : i \in DOMAIN opened_shards} |->
        IF sid \in DOMAIN shard_entries
        THEN shard_entries[sid]
        ELSE LET idx == {i \in DOMAIN opened_shards : opened_shards[i].shard_id = sid}
                 firstIdx == CHOOSE i \in idx : \A j \in idx : i <= j
             IN ShardEntryFrom(opened_shards[firstIdx]) ]

\* The first loop comparing the index uid alone.
IndexUidMatches(source_uid, shard) == shard.index_uid = source_uid.index_uid

\* The first loop: does every shard carry the source uid of the call?
SourceUidMatches(source_uid, shard) ==
    shard.index_uid = source_uid.index_uid /\ shard.source_id = source_uid.source_id

\* insert_newly_opened_shards checking each shard as it mirrors it: the shards
\* ahead of the first mismatch are in ingester_shards when the panic comes.
insert_newly_opened_shards_checking_each(self, index_uid, source_id, opened_shards, t) ==
    LET source_uid == SourceUidOf(index_uid, source_id)
        mismatches == {i \in DOMAIN opened_shards : ~SourceUidMatches(source_uid, opened_shards[i])}
    IN IF mismatches # {}
       THEN LET first == CHOOSE i \in mismatches : \A j \in mismatches : i <= j
                ahead == SubSeq(opened_shards, 1, first - 1)
            IN Outcome([self EXCEPT !.ingester_shards = MirrorShards(@, source_uid, ahead)],
                       "shard source UID does not match source UID", "unit")
       ELSE LET mirrored == MirrorShards(self.ingester_shards, source_uid, opened_shards)
                table_entry ==
                    IF source_uid \in DOMAIN self.table_entries
                    THEN [self.table_entries[source_uid] EXCEPT
                            !.shard_entries = InsertUnknownShards(@, opened_shards)]
                    ELSE [ShardTableEntryDefault(t) EXCEPT
                            !.shard_entries = CollectShardEntries(opened_shards)]
                after == [table_entries |-> Put(self.table_entries, source_uid, table_entry),
                          ingester_shards |-> mirrored]
            IN Outcome(after, check_invariant(after), "unit")

\* ShardTable::insert_newly_opened_shards
insert_newly_opened_shards(self, index_uid, source_id, opened_shards, t) ==
    LET source_uid == SourceUidOf(index_uid, source_id)
    IN IF \E i \in DOMAIN opened_shards : ~SourceUidMatches(source_uid, opened_shards[i])
       THEN Outcome(self, "shard source UID does not match source UID", "unit")
       ELSE LET mirrored == MirrorShards(self.ingester_shards, source_uid, opened_shards)
                table_entry ==
                    IF source_uid \in DOMAIN self.table_entries
                    THEN [self.table_entries[source_uid] EXCEPT
                            !.shard_entries = InsertUnknownShards(@, opened_shards)]
                    ELSE [ShardTableEntryDefault(t) EXCEPT
                            !.shard_entries = CollectShardEntries(opened_shards)]
                after == [table_entries |-> Put(self.table_entries, source_uid, table_entry),
                          ingester_shards |-> mirrored]
            IN Outcome(after, check_invariant(after), "unit")

\* find_open_shards without the filter on unavailable_leaders.
find_open_shards_any_leader(self, index_uid, source_id, unavailable_leaders) ==
    LET source_uid == SourceUidOf(index_uid, source_id)
    IN IF source_uid \notin DOMAIN self.table_entries
       THEN NoneVal
       ELSE LET shard_entries == self.table_entries[source_uid].shard_entries
            IN Some({ shard_entries[s] : s \in
                        { x \in DOMAIN shard_entries : is_open(shard_entries[x].shard) } })

\* ShardTable::find_open_shards: None, or the set of the entries returned (the
\* order of the Vec is the hash map's).
find_open_shards(self, index_uid, source_id, unavailable_leaders) ==
    LET source_uid == SourceUidOf(index_uid, source_id)
    IN IF source_uid \notin DOMAIN self.table_entries
       THEN NoneVal
       ELSE LET shard_entries == self.table_entries[source_uid].shard_entries
            IN Some({ shard_entries[s] : s \in
                        { x \in DOMAIN shard_entries :
                            /\ is_open(shard_entries[x].shard)
                            /\ shard_entries[x].shard.leader_id \notin unavailable_leaders } })

\* delete_shards dropping the entry of a source it has emptied.
delete_shards_dropping_empty_source(self, source_uid, shard_ids) ==
    IF source_uid \notin DOMAIN self.table_entries
    THEN Outcome(self, check_invariant(self), "unit")
    ELSE LET shard_entries == self.table_entries[source_uid].shard_entries
             listed == {shard_ids[i] : i \in DOMAIN shard_ids} \cap DOMAIN shard_entries
             removed == RemoveShardsFromIngesters(
                            {<<source_uid, shard_entries[s].shard>> : s \in listed},
                            self.ingester_shards)
             table_entries ==
                 IF listed = DOMAIN shard_entries
                 THEN Without(self.table_entries, {source_uid})
                 ELSE [self.table_entries EXCEPT
                         ![source_uid].shard_entries = Without(@, listed)]
             after == [table_entries |-> table_entries,
                       ingester_shards |-> removed.ingester_shards]
         IN IF ~removed.ok
            THEN Outcome(after, "inconsistent state", "unit")
            ELSE Outcome(after, check_invariant(after), "unit")

\* ShardTable::delete_shards
delete_shards(self, source_uid, shard_ids) ==
    IF source_uid \notin DOMAIN self.table_entries
    THEN Outcome(self, check_invariant(self), "unit")
    ELSE LET shard_entries == self.table_entries[source_uid].shard_entries
             listed == {shard_ids[i] : i \in DOMAIN shard_ids} \cap DOMAIN shard_entries
             removed == RemoveShardsFromIngesters(
                            {<<source_uid, shard_entries[s].shard>> : s \in listed},
                            self.ingester_shards)
             after == [table_entries |->
                          [self.table_entries EXCEPT
                             ![source_uid].shard_entries = Without(@, listed)],
                       ingester_shards |-> removed.ingester_shards]
         IN IF ~removed.ok
            THEN Outcome(after, "inconsistent state", "unit")
            ELSE Outcome(after, check_invariant(after), "unit")

\* initialize_source_shards asserting only that no shard was stored before.
initialize_source_shards_over_empty(self, source_uid, shards, t) ==
    LET after == [table_entries |-> Put(self.table_entries, source_uid, from_shards(shards, t)),
                  ingester_shards |-> MirrorShards(self.ingester_shards, source_uid, shards)]
    IN IF source_uid \in DOMAIN self.table_entries
          /\ ~is_empty(self.table_entries[source_uid])
       THEN Outcome(after, "assertion failed: previous_entry.is_none()", "unit")
       ELSE Outcome(after, check_invariant(after), "unit")

\* ShardTable::initialize_source_shards
initialize_source_shards(self, source_uid, shards, t) ==
    LET after == [table_entries |-> Put(self.table_entries, source_uid, from_shards(shards, t)),
                  ingester_shards |-> MirrorShards(self.ingester_shards, source_uid, shards)]
    IN IF source_uid \in DOMAIN self.table_entries
       THEN Outcome(after, "assertion failed: previous_entry.is_none()", "unit")
       ELSE Outcome(after, check_invariant(after), "unit")

\* The first loop of update_shards trusting every gossiped state.
ApplyShardInfosTrustingState(shard_entries, shard_infos) ==
    [ sid \in DOMAIN shard_entries |->
        LET idx == {i \in DOMAIN shard_infos : shard_infos[i].shard_id = sid}
        IN IF idx = {}
           THEN shard_entries[sid]
           ELSE LET lastIdx == CHOOSE i \in idx : \A j \in idx : j <= i
                IN [ shard |-> [shard_entries[sid].shard EXCEPT
                                   !.shard_state = shard_infos[lastIdx].shard_state],
                     ingestion_rate |-> shard_infos[lastIdx].ingestion_rate ] ]

\* The first loop of update_shards over the batch, in the order of the set:
\* for a known shard the rate of the last info naming it, and Closed as soon
\* as one info naming it is Closed.
ApplyShardInfos(shard_entries, shard_infos) ==
    [ sid \in DOMAIN shard_entries |->
        LET idx == {i \in DOMAIN shard_infos : shard_infos[i].shard_id = sid}
        IN IF idx = {}
           THEN shard_entries[sid]
           ELSE LET lastIdx == CHOOSE i \in idx : \A j \in idx : j <= i
                IN [ shard |->
                        IF \E i \in idx : shard_infos[i].shard_state = "Closed"
                        THEN [shard_entries[sid].shard EXCEPT !.shard_state = "Closed"]
                        ELSE shard_entries[sid].shard,
                     ingestion_rate |-> shard_infos[lastIdx].ingestion_rate ] ]

RECURSIVE SumRates(_, _)
SumRates(shard_entries, ids) ==
    IF ids = {}
    THEN 0
    ELSE LET s == CHOOSE x \in ids : TRUE
         IN shard_entries[s].ingestion_rate + SumRates(shard_entries, ids \ {s})

\* ShardStats: avg_ingestion_rate is the fraction <<sum, count>>, <<0, 1>> for 0.0.
ShardStatsOf(shard_entries) ==
    LET open == {s \in DOMAIN shard_entries : is_open(shard_entries[s].shard)}
    IN [ num_open_shards |-> Cardinality(open),
         avg_ingestion_rate |->
            IF Cardinality(open) > 0
            THEN <<SumRates(shard_entries, open), Cardinality(open)>>
            ELSE <<0, 1>> ]

\* update_shards with the statistics taken before the batch is applied.
update_shards_stats_first(self, source_uid, shard_infos) ==
    IF source_uid \notin DOMAIN self.table_entries
    THEN Outcome(self, "none", [num_open_shards |-> 0, avg_ingestion_rate |-> <<0, 1>>])
    ELSE LET shard_entries ==
                 ApplyShardInfos(self.table_entries[source_uid].shard_entries, shard_infos)
         IN Outcome([self EXCEPT !.table_entries[source_uid].shard_entries = shard_entries],
                    "none", ShardStatsOf(self.table_entries[source_uid].shard_entries))

\* ShardTable::update_shards
update_shards(self, source_uid, shard_infos) ==
    IF source_uid \notin DOMAIN self.table_entries
    THEN Outcome(self, "none", [num_open_shards |-> 0, avg_ingestion_rate |-> <<0, 1>>])
    ELSE LET shard_entries ==
                 ApplyShardInfos(self.table_entries[source_uid].shard_entries, shard_infos)
         IN Outcome([self EXCEPT !.table_entries[source_uid].shard_entries = shard_entries],
                    "none", ShardStatsOf(shard_entries))

\* The loop of close_shards closing the Open shards only.
RECURSIVE CloseEachOpen(_, _, _)
CloseEachOpen(shard_entries, shard_ids, closed_shard_ids) ==
    IF shard_ids = << >>
    THEN [shard_entries |-> shard_entries, closed_shard_ids |-> closed_shard_ids]
    ELSE LET shard_id == Head(shard_ids)
         IN IF shard_id \in DOMAIN shard_entries /\ is_open(shard_entries[shard_id].shard)
            THEN CloseEachOpen([shard_entries EXCEPT ![shard_id].shard.shard_state = "Closed"],
                               Tail(shard_ids), Append(closed_shard_ids, shard_id))
            ELSE CloseEachOpen(shard_entries, Tail(shard_ids), closed_shard_ids)

\* The loop of close_shards reporting every listed shard it finds.
RECURSIVE CloseEachReportingAll(_, _, _)
CloseEachReportingAll(shard_entries, shard_ids, closed_shard_ids) ==
    IF shard_ids = << >>
    THEN [shard_entries |-> shard_entries, closed_shard_ids |-> closed_shard_ids]
    ELSE LET shard_id == Head(shard_ids)
         IN IF shard_id \in DOMAIN shard_entries
            THEN CloseEachReportingAll(
                     [shard_entries EXCEPT ![shard_id].shard.shard_state = "Closed"],
                     Tail(shard_ids), Append(closed_shard_ids, shard_id))
            ELSE CloseEachReportingAll(shard_entries, Tail(shard_ids), closed_shard_ids)

\* The loop of close_shards dropping the entry of each shard it closes.
RECURSIVE CloseEachEvicting(_, _, _)
CloseEachEvicting(shard_entries, shard_ids, closed_shard_ids) ==
    IF shard_ids = << >>
    THEN [shard_entries |-> shard_entries, closed_shard_ids |-> closed_shard_ids]
    ELSE LET shard_id == Head(shard_ids)
         IN IF shard_id \in DOMAIN shard_entries /\ ~is_closed(shard_entries[shard_id].shard)
            THEN CloseEachEvicting(Without(shard_entries, {shard_id}),
                                   Tail(shard_ids), Append(closed_shard_ids, shard_id))
            ELSE CloseEachEvicting(shard_entries, Tail(shard_ids), closed_shard_ids)

\* The loop of close_shards: [shard_entries, closed_shard_ids].
RECURSIVE CloseEach(_, _, _)
CloseEach(shard_entries, shard_ids, closed_shard_ids) ==
    IF shard_ids = << >>
    THEN [shard_entries |-> shard_entries, closed_shard_ids |-> closed_shard_ids]
    ELSE LET shard_id == Head(shard_ids)
         IN IF shard_id \in DOMAIN shard_entries /\ ~is_closed(shard_entries[shard_id].shard)
            THEN CloseEach([shard_entries EXCEPT ![shard_id].shard.shard_state = "Closed"],
                           Tail(shard_ids), Append(closed_shard_ids, shard_id))
            ELSE CloseEach(shard_entries, Tail(shard_ids), closed_shard_ids)

\* close_shards taking the shards it closes out of ingester_shards.
close_shards_releasing_ingesters(self, source_uid, shard_ids) ==
    IF source_uid \notin DOMAIN self.table_entries
    THEN Outcome(self, "none", << >>)
    ELSE LET closed == CloseEach(self.table_entries[source_uid].shard_entries, shard_ids, << >>)
             ids == {closed.closed_shard_ids[i] : i \in DOMAIN closed.closed_shard_ids}
         IN Outcome([table_entries |->
                        [self.table_entries EXCEPT
                            ![source_uid].shard_entries = closed.shard_entries],
                     ingester_shards |->
                        [n \in DOMAIN self.ingester_shards |->
                            [v \in DOMAIN self.ingester_shards[n] |->
                                IF v = source_uid
                                THEN self.ingester_shards[n][v] \ ids
                                ELSE self.ingester_shards[n][v]]]],
                    "none", closed.closed_shard_ids)

\* ShardTable::close_shards
close_shards(self, source_uid, shard_ids) ==
    IF source_uid \notin DOMAIN self.table_entries
    THEN Outcome(self, "none", << >>)
    ELSE LET closed == CloseEach(self.table_entries[source_uid].shard_entries, shard_ids, << >>)
         IN Outcome([self EXCEPT !.table_entries[source_uid].shard_entries = closed.shard_entries],
                    "none", closed.closed_shard_ids)

\* The match on the scaling mode with its arms exchanged.
LimiterFieldExchanged(scaling_mode) ==
    IF scaling_mode = "Up" THEN "scaling_down_rate_limiter" ELSE "scaling_up_rate_limiter"

\* The limiter a scaling mode selects.
LimiterField(scaling_mode) ==
    IF scaling_mode = "Up" THEN "scaling_up_rate_limiter" ELSE "scaling_down_rate_limiter"

\* acquire_scaling_permits taking from the scaling-up limiter in both modes.
acquire_scaling_permits_up_only(self, source_uid, scaling_mode, num_permits, t) ==
    IF source_uid \notin DOMAIN self.table_entries
    THEN Outcome(self, "none", NoneVal)
    ELSE LET got == acquire(self.table_entries[source_uid].scaling_up_rate_limiter,
                            num_permits, t)
         IN Outcome([self EXCEPT
                       !.table_entries[source_uid].scaling_up_rate_limiter = got.limiter],
                    "none", Some(got.ok))

\* ShardTable::acquire_scaling_permits
acquire_scaling_permits(self, source_uid, scaling_mode, num_permits, t) ==
    IF source_uid \notin DOMAIN self.table_entries
    THEN Outcome(self, "none", NoneVal)
    ELSE LET got == acquire(self.table_entries[source_uid][LimiterField(scaling_mode)],
                            num_permits, t)
         IN Outcome([self EXCEPT
                       !.table_entries[source_uid][LimiterField(scaling_mode)] = got.limiter],
                    "none", Some(got.ok))

\* release_scaling_permits releasing on a copy of the limiter: the table keeps
\* the permits it had.
release_scaling_permits_on_copy(self, source_uid, scaling_mode, num_permits) ==
    Outcome(self, "none", "unit")

\* release_scaling_permits returning to the scaling-up limiter in both modes.
release_scaling_permits_up_only(self, source_uid, scaling_mode, num_permits) ==
    IF source_uid \notin DOMAIN self.table_entries
    THEN Outcome(self, "none", "unit")
    ELSE Outcome([self EXCEPT
                    !.table_entries[source_uid].scaling_up_rate_limiter =
                        release(@, num_permits)],
                 "none", "unit")

\* ShardTable::release_scaling_permits
release_scaling_permits(self, source_uid, scaling_mode, num_permits) ==
    IF source_uid \notin DOMAIN self.table_entries
    THEN Outcome(self, "none", "unit")
    ELSE Outcome([self EXCEPT
                    !.table_entries[source_uid][LimiterField(scaling_mode)] =
                        release(@, num_permits)],
                 "none", "unit")

---------------------------------------------------------------------------
(* The arguments the calls are made with.                                  *)

\* A shard names one leader and, when it is replicated, the follower "n2".
Placements ==
    { pl \in [leader_id : NodeIds, follower_ids : SUBSET NodeIds] :
        pl.follower_ids \subseteq ({"n2"} \ {pl.leader_id}) }

\* The sources a Shard value may claim: those of the table, and one more source
\* of an index of the table.
ShardOrigins ==
    SourceUids \cup
        { [index_uid |-> [index_id |-> "foo", incarnation |-> 0], source_id |-> "s1"] }

Shards ==
    { [ index_uid |-> o.index_uid, source_id |-> o.source_id, shard_id |-> sid,
        shard_state |-> st, leader_id |-> pl.leader_id, follower_ids |-> pl.follower_ids ] :
        o \in ShardOrigins, sid \in ShardIds, st \in ShardStates, pl \in Placements }

\* The shards a call on source_uid is handed: the shards of that source, in any
\* state and placement, and the shards of the other sources as they are first
\* opened (Open, on the leader "n1" alone).
ShardsHandedTo(source_uid) ==
    { sh \in Shards :
        \/ (sh.index_uid = source_uid.index_uid /\ sh.source_id = source_uid.source_id)
        \/ (sh.shard_state = "Open" /\ sh.leader_id = "n1" /\ sh.follower_ids = {}) }

\* Vec<Shard>: a batch lists each shard id once (the metastore keys the shards
\* of a source by their id), here by increasing id.
ShardBatches ==
    [ u \in SourceUids |->
        UNION { { b \in [1..k -> ShardsHandedTo(u)] :
                    \A i \in 1..k, j \in 1..k : i < j => b[i].shard_id < b[j].shard_id } :
                k \in 0..MaxBatch } ]

\* &[ShardId]: any list, repeated ids included.
ShardIdLists == UNION { [1..k -> ShardIds] : k \in 1..MaxBatch }

ShardInfoValues ==
    [shard_id : ShardIds, shard_state : ShardStates, ingestion_rate : 1..MaxRate]

\* ShardInfos: an ordered set, one info per shard id.
ShardInfoBatches ==
    UNION { { b \in [1..k -> ShardInfoValues] :
                \A i \in 1..k, j \in 1..k : i < j => b[i].shard_id < b[j].shard_id } :
            k \in 1..MaxBatch }

---------------------------------------------------------------------------
(* The IndexSerializer actor                                               *)
(* (quickwit-indexing/src/actors/index_serializer.rs): the messages it is  *)
(* sent and what it makes of them.                                         *)

SplitIds == 1..MaxSplits

\* IndexedSplitBuilder, as far as the handler reads it: the controlled
\* directory it may have, and whether finalize() will return Ok or Err.
IndexedSplitBuilders ==
    [ split_id : SplitIds,
      controlled_directory_opt : {NoneVal, Some("controlled_directory")},
      finalize_ok : BOOLEAN ]

\* Vec<IndexedSplitBuilder>: each split once, in any order.
SplitBuilderLists ==
    UNION { { l \in [1..k -> IndexedSplitBuilders] :
                \A i \in 1..k, j \in 1..k : i # j => l[i].split_id # l[j].split_id } :
            k \in 0..MaxSplits }

\* IndexedSplitBatchBuilder
IndexedSplitBatchBuilders ==
    [ type : {"IndexedSplitBatchBuilder"},
      splits : SplitBuilderLists,
      checkpoint_delta_opt : {NoneVal, Some("delta")},
      publish_lock : {"publish_lock"},
      publish_token_opt : {NoneVal, Some("token")},
      batch_parent_span : {"span"} ]

\* EmptySplit
EmptySplits ==
    [ type : {"EmptySplit"},
      checkpoint_delta : {"delta"},
      publish_lock : {"publish_lock"},
      publish_token_opt : {NoneVal, Some("token")},
      batch_parent_span : {"span"} ]

\* split_builder.finalize()?: Ok(IndexedSplit) or Err.
finalize(split_builder) ==
    IF split_builder.finalize_ok
    THEN [ok |-> TRUE,
          split |-> [type |-> "IndexedSplit", split_id |-> split_builder.split_id,
                     controlled_directory_opt |-> split_builder.controlled_directory_opt]]
    ELSE [ok |-> FALSE, split |-> NoneVal]

\* The batch without the checkpoint delta of the builder.
IndexedSplitBatchWithoutCheckpoint(batch_builder, splits) ==
    [ type |-> "IndexedSplitBatch",
      splits |-> splits,
      checkpoint_delta_opt |-> NoneVal,
      publish_lock |-> batch_builder.publish_lock,
      publish_token_opt |-> batch_builder.publish_token_opt,
      merge_operation_opt |-> NoneVal,
      batch_parent_span |-> batch_builder.batch_parent_span ]

\* let indexed_split_batch = IndexedSplitBatch { .. }
IndexedSplitBatchOf(batch_builder, splits) ==
    [ type |-> "IndexedSplitBatch",
      splits |-> splits,
      checkpoint_delta_opt |-> batch_builder.checkpoint_delta_opt,
      publish_lock |-> batch_builder.publish_lock,
      publish_token_opt |-> batch_builder.publish_token_opt,
      merge_operation_opt |-> NoneVal,
      batch_parent_span |-> batch_builder.batch_parent_span ]

\* ctx.send_message(&self.packager_mailbox, message).await: the message is
\* queued when the packager is there, the send fails when it is gone.
send_message(mailbox, message) ==
    IF mailbox.connected
    THEN [ok |-> TRUE, mailbox |-> [mailbox EXCEPT !.messages = Append(@, message)]]
    ELSE [ok |-> FALSE, mailbox |-> mailbox]

\* The actor between two messages.
SerializerIdle ==
    [pc |-> "idle", batch_builder |-> NoneVal, next |-> 1, splits |-> << >>,
     io_controlled |-> {}]

\* The actor after a handler returned Err(ActorExitStatus).
SerializerExited == [SerializerIdle EXCEPT !.pc = "exited"]

---------------------------------------------------------------------------
(* The state machine: one action per public mutating operation.            *)

NoCall == [op |-> "default", ret |-> "unit"]

Init ==
    /\ shard_table = ShardTableDefault
    /\ debug_assertions \in BOOLEAN
    /\ panicked = "none"
    /\ now = 0
    /\ last = NoCall
    /\ nops = 0
    /\ since_created = EmptyMap
    /\ serializer = SerializerIdle
    /\ packager_mailbox = [connected |-> TRUE, messages |-> << >>]
    /\ handled = << >>

\* A panic aborts the process: no call follows it.
CanCall == panicked = "none" /\ nops < MaxOps

Call(op, args, out) ==
    /\ shard_table' = out.self
    /\ panicked' = out.panic
    /\ last' = [op |-> op, ret |-> out.ret]
    /\ nops' = nops + 1
    /\ UNCHANGED <<debug_assertions, now, since_created>>
    /\ UNCHANGED serializer_vars

AddSource ==
    /\ CanCall
    /\ \E u \in SourceUids :
          Call("add_source", [source_uid |-> u],
               add_source(shard_table, u.index_uid, u.source_id, now))

DeleteSource ==
    /\ CanCall
    /\ \E u \in SourceUids :
          Call("delete_source", [source_uid |-> u],
               delete_source(shard_table, u.index_uid, u.source_id))

DeleteIndex ==
    /\ CanCall
    /\ \E i \in IndexIds :
          Call("delete_index", [index_id |-> i], delete_index(shard_table, i))

InsertNewlyOpenedShards ==
    /\ CanCall
    /\ \E u \in SourceUids : \E b \in ShardBatches[u] :
          Call("insert_newly_opened_shards", [source_uid |-> u, shards |-> b],
               insert_newly_opened_shards(shard_table, u.index_uid, u.source_id, b, now))

InitializeSourceShards ==
    /\ CanCall
    /\ \E u \in SourceUids : \E b \in ShardBatches[u] :
          Call("initialize_source_shards", [source_uid |-> u, shards |-> b],
               initialize_source_shards(shard_table, u, b, now))

UpdateShards ==
    /\ CanCall
    /\ \E u \in SourceUids, b \in ShardInfoBatches :
          Call("update_shards", [source_uid |-> u, shard_infos |-> b],
               update_shards(shard_table, u, b))

CloseShards ==
    /\ CanCall
    /\ \E u \in SourceUids, ids \in ShardIdLists :
          Call("close_shards", [source_uid |-> u, shard_ids |-> ids],
               close_shards(shard_table, u, ids))

DeleteShards ==
    /\ CanCall
    /\ \E u \in SourceUids, ids \in ShardIdLists :
          Call("delete_shards", [source_uid |-> u, shard_ids |-> ids],
               delete_shards(shard_table, u, ids))

AcquireScalingPermits ==
    /\ CanCall
    /\ \E u \in SourceUids, m \in ScalingModes, n \in 1..MaxPermits :
          Call("acquire_scaling_permits",
               [source_uid |-> u, scaling_mode |-> m, num_permits |-> n],
               acquire_scaling_permits(shard_table, u, m, n, now))

ReleaseScalingPermits ==
    /\ CanCall
    /\ \E u \in SourceUids, m \in ScalingModes, n \in 1..MaxPermits :
          Call("release_scaling_permits",
               [source_uid |-> u, scaling_mode |-> m, num_permits |-> n],
               release_scaling_permits(shard_table, u, m, n))

Next ==
    \/ AddSource
    \/ DeleteSource
    \/ DeleteIndex
    \/ InsertNewlyOpenedShards
    \/ InitializeSourceShards
    \/ UpdateShards
    \/ CloseShards
    \/ DeleteShards
    \/ AcquireScalingPermits
    \/ ReleaseScalingPermits

Spec == Init /\ [][Next]_vars

---------------------------------------------------------------------------
(* The specification with in-place edits: the public calls, and the edits  *)
(* a caller of the crate makes on the entries all_shards_mut hands out.    *)

\* What a holder of &mut ShardEntry can make of the entry: any state, any
\* placement, any ingestion rate.
InPlaceEdits(shard_entry) ==
    { [shard_entry EXCEPT !.shard.shard_state = st,
                          !.shard.leader_id = pl.leader_id,
                          !.shard.follower_ids = pl.follower_ids,
                          !.ingestion_rate = rate] :
        st \in ShardStates, pl \in Placements, rate \in 0..MaxRate }

\* ShardTable::all_shards_mut, and one edit through the iterator it returns.
AllShardsMut ==
    /\ CanCall
    /\ \E u \in DOMAIN shard_table.table_entries :
       \E s \in DOMAIN shard_table.table_entries[u].shard_entries :
       \E e \in InPlaceEdits(shard_table.table_entries[u].shard_entries[s]) :
          /\ e # shard_table.table_entries[u].shard_entries[s]
          /\ shard_table' = [shard_table EXCEPT !.table_entries[u].shard_entries[s] = e]
          /\ last' = [op |-> "all_shards_mut", ret |-> "unit"]
          /\ nops' = nops + 1
          /\ UNCHANGED <<debug_assertions, panicked, now, since_created>>
          /\ UNCHANGED serializer_vars

NextInPlace ==
    \/ Next
    \/ AllShardsMut

SpecInPlace == Init /\ [][NextInPlace]_vars

---------------------------------------------------------------------------
(* The scaling specification: one source, its two rate limiters, and the   *)
(* clock. The calls are add_source, acquire_scaling_permits and            *)
(* release_scaling_permits; Tick lets TickSeconds seconds pass.            *)

ScalingSource == [index_uid |-> [index_id |-> "foo", incarnation |-> 0], source_id |-> "s0"]

CanCallScaling == panicked = "none" /\ nops < MaxScalingOps

CallScaling(op, out, history) ==
    /\ shard_table' = out.self
    /\ panicked' = out.panic
    /\ last' = [op |-> op, ret |-> out.ret]
    /\ nops' = nops + 1
    /\ since_created' = history
    /\ UNCHANGED <<debug_assertions, now>>
    /\ UNCHANGED serializer_vars

ScalingAddSource ==
    /\ CanCallScaling
    /\ CallScaling("add_source",
                   add_source(shard_table, ScalingSource.index_uid, ScalingSource.source_id, now),
                   Put(since_created, ScalingSource,
                       [ created_at |-> now,
                         granted |-> [m \in ScalingModes |-> 0],
                         released |-> [m \in ScalingModes |-> FALSE] ]))

ScalingAcquire ==
    /\ CanCallScaling
    /\ \E m \in ScalingModes, n \in 1..MaxPermits :
          LET out == acquire_scaling_permits(shard_table, ScalingSource, m, n, now)
          IN CallScaling("acquire_scaling_permits", out,
                         IF ScalingSource \in DOMAIN shard_table.table_entries /\ out.ret[2]
                         THEN [since_created EXCEPT ![ScalingSource].granted[m] = @ + 1]
                         ELSE since_created)

ScalingRelease ==
    /\ CanCallScaling
    /\ \E m \in ScalingModes, n \in 1..MaxPermits :
          CallScaling("release_scaling_permits",
                      release_scaling_permits(shard_table, ScalingSource, m, n),
                      IF ScalingSource \in DOMAIN since_created
                      THEN [since_created EXCEPT ![ScalingSource].released[m] = TRUE]
                      ELSE since_created)

\* The monotonic clock advances.
Tick ==
    /\ now + TickSeconds <= MaxNow
    /\ now' = now + TickSeconds
    /\ UNCHANGED <<shard_table, debug_assertions, panicked, last, nops, since_created>>
    /\ UNCHANGED serializer_vars

NextScaling ==
    \/ ScalingAddSource
    \/ ScalingAcquire
    \/ ScalingRelease
    \/ Tick

SpecScaling == Init /\ [][NextScaling]_vars

---------------------------------------------------------------------------
(* The serializer specification: the IndexSerializer handles the messages  *)
(* it is sent, one at a time, while the packager may go away.              *)

\* Handler<IndexedSplitBatchBuilder>::handle is entered with a message:
\* splits = Vec::with_capacity(..).
HandleIndexedSplitBatchBuilder ==
    /\ serializer.pc = "idle"
    /\ Len(handled) < MaxHandled
    /\ \E batch_builder \in IndexedSplitBatchBuilders :
          serializer' = [SerializerIdle EXCEPT !.pc = "finalize",
                                               !.batch_builder = batch_builder]
    /\ UNCHANGED <<packager_mailbox, handled>>
    /\ UNCHANGED shard_table_vars

\* One turn of the loop over batch_builder.splits: the io controls are set on
\* the controlled directory, then finalize()? pushes the split or returns the
\* error out of the handler.
FinalizeSplit ==
    /\ serializer.pc = "finalize"
    /\ serializer.next <= Len(serializer.batch_builder.splits)
    /\ LET split_builder == serializer.batch_builder.splits[serializer.next]
           io_controlled ==
               IF split_builder.controlled_directory_opt # NoneVal
               THEN serializer.io_controlled \cup {split_builder.split_id}
               ELSE serializer.io_controlled
           finalized == finalize(split_builder)
       IN IF finalized.ok
          THEN /\ serializer' = [serializer EXCEPT
                                    !.next = @ + 1,
                                    !.splits = Append(@, finalized.split),
                                    !.io_controlled = io_controlled]
               /\ UNCHANGED handled
          ELSE /\ serializer' = SerializerExited
               /\ handled' = Append(handled,
                                     [message |-> serializer.batch_builder,
                                      sent |-> << >>,
                                      reply |-> "Err(finalize)"])
    /\ UNCHANGED packager_mailbox
    /\ UNCHANGED shard_table_vars

\* After the loop: the batch is built and sent to the packager; the error of
\* the send is returned, Ok(()) otherwise.
SendIndexedSplitBatch ==
    /\ serializer.pc = "finalize"
    /\ serializer.next > Len(serializer.batch_builder.splits)
    /\ LET indexed_split_batch ==
               IndexedSplitBatchOf(serializer.batch_builder, serializer.splits)
           sending == send_message(packager_mailbox, indexed_split_batch)
       IN /\ packager_mailbox' = sending.mailbox
          /\ serializer' = IF sending.ok THEN SerializerIdle ELSE SerializerExited
          /\ handled' = Append(handled,
                                [message |-> serializer.batch_builder,
                                 sent |-> <<indexed_split_batch>>,
                                 reply |-> IF sending.ok THEN "Ok" ELSE "Err(send)"])
    /\ UNCHANGED shard_table_vars

\* Handler<EmptySplit>::handle: the message is passed on to the packager.
HandleEmptySplit ==
    /\ serializer.pc = "idle"
    /\ Len(handled) < MaxHandled
    /\ \E empty_split \in EmptySplits :
          LET sending == send_message(packager_mailbox, empty_split)
          IN /\ packager_mailbox' = sending.mailbox
             /\ serializer' = IF sending.ok THEN SerializerIdle ELSE SerializerExited
             /\ handled' = Append(handled,
                                   [message |-> empty_split,
                                    sent |-> <<empty_split>>,
                                    reply |-> IF sending.ok THEN "Ok" ELSE "Err(send)"])
    /\ UNCHANGED shard_table_vars

\* The packager goes away: from then on a send to its mailbox fails.
PackagerExits ==
    /\ packager_mailbox.connected
    /\ packager_mailbox' = [packager_mailbox EXCEPT !.connected = FALSE]
    /\ UNCHANGED <<serializer, handled>>
    /\ UNCHANGED shard_table_vars

NextSerializer ==
    \/ HandleIndexedSplitBatchBuilder
    \/ FinalizeSplit
    \/ SendIndexedSplitBatch
    \/ HandleEmptySplit
    \/ PackagerExits

SpecSerializer == Init /\ [][NextSerializer]_vars

---------------------------------------------------------------------------
(* Claims.                                                                 *)

Running == panicked = "none"
TE == shard_table.table_entries
IS == shard_table.ingester_shards
MismatchPanic == "shard source UID does not match source UID"
ReinitPanic == "assertion failed: previous_entry.is_none()"
InconsistentPanic == "inconsistent state"

\* The shard ids some node holds for source u in an ingester index.
IdsHeldFor(ingester_shards, u) ==
    UNION { ingester_shards[n][u] : n \in {m \in DOMAIN ingester_shards : u \in DOMAIN ingester_shards[m]} }

\* C1: after any sequence of public mutations from the empty table, the triples
\* (node, source_uid, shard_id) of table_entries are those of ingester_shards.
C1_CrossIndexInvariant ==
    Running => TableTriples(shard_table) = IngesterTriples(shard_table)

\* C2: every shard stored under (source_uid u, shard_id s) carries the index_uid
\* and source_id of u and the shard_id s, whichever call stored it.
C2_StoredShardMatchesKey ==
    Running =>
        \A u \in DOMAIN TE : \A s \in DOMAIN TE[u].shard_entries :
            /\ TE[u].shard_entries[s].shard.index_uid = u.index_uid
            /\ TE[u].shard_entries[s].shard.source_id = u.source_id
            /\ TE[u].shard_entries[s].shard.shard_id = s

\* C3: insert_newly_opened_shards on a known source leaves every stored shard
\* entry as it was, whatever the incoming shard with that id holds, and stores
\* every incoming shard with a new id as given (with the default rate).
C3_InsertKeepsKnownShards ==
    CanCall =>
        \A u \in DOMAIN TE : \A b \in ShardBatches[u] :
            LET out == insert_newly_opened_shards(shard_table, u.index_uid, u.source_id, b, now)
                old == TE[u].shard_entries
                new == out.self.table_entries[u].shard_entries
            IN out.panic # MismatchPanic =>
                /\ DOMAIN new = (DOMAIN old) \cup {b[i].shard_id : i \in DOMAIN b}
                /\ \A s \in DOMAIN old : new[s] = old[s]
                /\ \A i \in DOMAIN b :
                      b[i].shard_id \notin DOMAIN old =>
                          new[b[i].shard_id] = [shard |-> b[i], ingestion_rate |-> 0]

\* A known source holds a shard, and a batch brings that id with other contents
\* together with a new id: the stored entry stays, the new shard is stored.
C3_Witness ==
    /\ CanCall
    /\ \E u \in DOMAIN TE : \E b \in ShardBatches[u] :
          LET out == insert_newly_opened_shards(shard_table, u.index_uid, u.source_id, b, now)
              old == TE[u].shard_entries
          IN /\ out.panic = "none"
             /\ \E i \in DOMAIN b, j \in DOMAIN b :
                   /\ b[i].shard_id \in DOMAIN old
                   /\ old[b[i].shard_id].shard # b[i]
                   /\ out.self.table_entries[u].shard_entries[b[i].shard_id] = old[b[i].shard_id]
                   /\ b[j].shard_id \notin DOMAIN old
                   /\ out.self.table_entries[u].shard_entries[b[j].shard_id].shard = b[j]

\* C4: insert_newly_opened_shards panics on the source uid exactly when some
\* shard of the batch has another index_uid or another source_id.
C4_InsertPanicsIffMismatch ==
    CanCall =>
        \A u \in SourceUids : \A b \in ShardBatches[u] :
            LET out == insert_newly_opened_shards(shard_table, u.index_uid, u.source_id, b, now)
            IN (out.panic = MismatchPanic) <=>
                  (\E i \in DOMAIN b :
                      b[i].index_uid # u.index_uid \/ b[i].source_id # u.source_id)

C4_Witness ==
    /\ panicked = MismatchPanic
    /\ last.op = "insert_newly_opened_shards"

\* C5: initialize_source_shards panics on its one-shot assertion exactly when
\* table_entries already holds an entry for the source, empty or not.
C5_InitializePanicsIffKnown ==
    CanCall =>
        \A u \in SourceUids : \A b \in ShardBatches[u] :
            LET out == initialize_source_shards(shard_table, u, b, now)
            IN (out.panic = ReinitPanic) <=> (u \in DOMAIN TE)

C5_Witness ==
    /\ panicked = ReinitPanic
    /\ last.op = "initialize_source_shards"

C7_DeleteIndexRemovesMatchingSources ==
    \A i \in IndexIds :
        LET out == delete_index(shard_table, i)
            matching == {u \in DOMAIN TE : u.index_uid.index_id = i}
        IN /\ out.panic # InconsistentPanic
           /\ DOMAIN out.self.table_entries = (DOMAIN TE) \ matching
           /\ \A u \in (DOMAIN TE) \ matching : out.self.table_entries[u] = TE[u]
           /\ \A u \in matching : \A s \in DOMAIN TE[u].shard_entries :
                 \A n \in {TE[u].shard_entries[s].shard.leader_id}
                              \cup TE[u].shard_entries[s].shard.follower_ids :
                     s \notin out.self.ingester_shards[n][u]
           /\ matching = {} => out.self = shard_table

\* Two incarnations of index foo, or index foo and index bar, hold shards:
\* delete_index("foo") removes the foo sources, and only them.
C7_Witness ==
    /\ Running
    /\ \E u \in DOMAIN TE, v \in DOMAIN TE :
          /\ u # v
          /\ u.index_uid.index_id = "foo"
          /\ DOMAIN TE[u].shard_entries # {}
          /\ DOMAIN TE[v].shard_entries # {}
          /\ LET out == delete_index(shard_table, "foo")
             IN /\ out.panic = "none"
                /\ u \notin DOMAIN out.self.table_entries
                /\ IdsHeldFor(IS, u) # {}
                /\ IdsHeldFor(out.self.ingester_shards, u) = {}
                /\ (v.index_uid.index_id = "bar" => v \in DOMAIN out.self.table_entries)

\* C8: delete_source removes the entry of the source and strips its shards, so
\* that no ingester set holds a shard id of the source afterwards; on an unknown
\* source both indices stay as they are.
C8_DeleteSourceStripsIngesters ==
    Running =>
        \A u \in SourceUids :
            LET out == delete_source(shard_table, u.index_uid, u.source_id)
            IN IF u \in DOMAIN TE
               THEN /\ u \notin DOMAIN out.self.table_entries
                    /\ IdsHeldFor(out.self.ingester_shards, u) = {}
               ELSE out.self = shard_table

\* C9: delete_shards removes exactly the listed ids that the source holds,
\* strips each of them from ingester_shards under the nodes of the removed
\* shard, skips the ids the source does not hold, and keeps the entry of the
\* source, the other shards and the other sources as they were.
C9_DeleteShardsRemovesListed ==
    \A u \in SourceUids : \A ids \in ShardIdLists :
        LET out == delete_shards(shard_table, u, ids)
            listed == {ids[k] : k \in DOMAIN ids}
        IN /\ out.panic # InconsistentPanic
           /\ DOMAIN out.self.table_entries = DOMAIN TE
           /\ \A v \in (DOMAIN TE) \ {u} : out.self.table_entries[v] = TE[v]
           /\ u \in DOMAIN TE =>
                 LET old == TE[u].shard_entries
                     new == out.self.table_entries[u].shard_entries
                 IN /\ DOMAIN new = (DOMAIN old) \ listed
                    /\ \A s \in DOMAIN new : new[s] = old[s]
                    /\ \A s \in (DOMAIN old) \cap listed :
                          \A n \in {old[s].shard.leader_id} \cup old[s].shard.follower_ids :
                              s \notin out.self.ingester_shards[n][u]
           /\ u \notin DOMAIN TE => out.self = shard_table

\* delete_shards has emptied a source: its entry is still there, and the
\* ingester sets of the source are empty.
C9_Witness ==
    /\ Running
    /\ last.op = "delete_shards"
    /\ \E u \in DOMAIN TE :
          /\ DOMAIN TE[u].shard_entries = {}
          /\ \E n \in DOMAIN IS : u \in DOMAIN IS[n] /\ IS[n][u] = {}

\* C10: find_open_shards returns None for an unknown source, and otherwise
\* exactly the stored entries that are Open with a leader outside
\* unavailable_leaders.
C10_FindOpenShardsExact ==
    \A u \in SourceUids : \A unavailable_leaders \in SUBSET NodeIds :
        LET found == find_open_shards(shard_table, u.index_uid, u.source_id, unavailable_leaders)
        IN IF u \notin DOMAIN TE
           THEN found = NoneVal
           ELSE /\ found # NoneVal
                /\ \A e \in found[2] :
                      /\ e.shard.shard_state = "Open"
                      /\ e.shard.leader_id \notin unavailable_leaders
                      /\ e.shard.shard_id \in DOMAIN TE[u].shard_entries
                      /\ TE[u].shard_entries[e.shard.shard_id] = e
                /\ \A s \in DOMAIN TE[u].shard_entries :
                      (/\ TE[u].shard_entries[s].shard.shard_state = "Open"
                       /\ TE[u].shard_entries[s].shard.leader_id \notin unavailable_leaders)
                          => TE[u].shard_entries[s] \in found[2]

\* A source holds an Open shard led by n1 and a shard that is not Open:
\* with no leader unavailable only the first is found, with n1 unavailable none.
C10_Witness ==
    /\ Running
    /\ \E u \in DOMAIN TE : \E s \in DOMAIN TE[u].shard_entries, r \in DOMAIN TE[u].shard_entries :
          /\ TE[u].shard_entries[s].shard.shard_state = "Open"
          /\ TE[u].shard_entries[s].shard.leader_id = "n1"
          /\ TE[u].shard_entries[r].shard.shard_state # "Open"
          /\ find_open_shards(shard_table, u.index_uid, u.source_id, {}) = Some({TE[u].shard_entries[s]})
          /\ find_open_shards(shard_table, u.index_uid, u.source_id, {"n1"}) = Some({})

\* The shard infos of a batch that name shard s.
InfosNaming(b, s) == {i \in DOMAIN b : b[i].shard_id = s}

\* C11: update_shards changes the state of a stored shard only to Closed, and
\* only when the gossiped state is Closed: a stored Closed shard stays Closed
\* whatever is gossiped; the rate of every known shard named in the batch
\* becomes the gossiped rate; ids the source does not hold create no entry;
\* nothing else of the table changes.
C11_UpdateShardsTrustsOnlyClosed ==
    \A u \in SourceUids : \A b \in ShardInfoBatches :
        LET out == update_shards(shard_table, u, b)
        IN /\ out.panic = "none"
           /\ out.self.ingester_shards = IS
           /\ DOMAIN out.self.table_entries = DOMAIN TE
           /\ \A v \in (DOMAIN TE) \ {u} : out.self.table_entries[v] = TE[v]
           /\ u \in DOMAIN TE =>
                 LET old == TE[u].shard_entries
                     new == out.self.table_entries[u].shard_entries
                 IN /\ DOMAIN new = DOMAIN old
                    /\ out.self.table_entries[u] = [TE[u] EXCEPT !.shard_entries = new]
                    /\ \A s \in DOMAIN old :
                          /\ new[s].shard =
                                [old[s].shard EXCEPT !.shard_state =
                                    IF \E i \in InfosNaming(b, s) : b[i].shard_state = "Closed"
                                    THEN "Closed" ELSE @]
                          /\ old[s].shard.shard_state = "Closed"
                                => new[s].shard.shard_state = "Closed"
                          /\ \A i \in InfosNaming(b, s) : new[s].ingestion_rate = b[i].ingestion_rate
                          /\ InfosNaming(b, s) = {} => new[s].ingestion_rate = old[s].ingestion_rate

\* A batch names a Closed shard as Open and an Open shard as Closed, both with
\* a new rate: the first stays Closed, the second becomes Closed, both rates
\* are taken.
C11_Witness ==
    /\ Running
    /\ \E u \in DOMAIN TE : \E b \in ShardInfoBatches : \E i \in DOMAIN b, j \in DOMAIN b :
          LET old == TE[u].shard_entries
              new == update_shards(shard_table, u, b).self.table_entries[u].shard_entries
          IN /\ b[i].shard_id \in DOMAIN old /\ b[j].shard_id \in DOMAIN old
             /\ old[b[i].shard_id].shard.shard_state = "Closed" /\ b[i].shard_state = "Open"
             /\ old[b[j].shard_id].shard.shard_state = "Open" /\ b[j].shard_state = "Closed"
             /\ old[b[i].shard_id].ingestion_rate # b[i].ingestion_rate
             /\ new[b[i].shard_id].shard.shard_state = "Closed"
             /\ new[b[j].shard_id].shard.shard_state = "Closed"
             /\ new[b[i].shard_id].ingestion_rate = b[i].ingestion_rate

\* The sum of the rates of the Open shards with an id in 1..k.
RECURSIVE OpenRateSum(_, _)
OpenRateSum(shard_entries, k) ==
    IF k = 0
    THEN 0
    ELSE (IF k \in DOMAIN shard_entries /\ shard_entries[k].shard.shard_state = "Open"
          THEN shard_entries[k].ingestion_rate ELSE 0)
         + OpenRateSum(shard_entries, k - 1)

\* C12: update_shards returns the number of shards of the source that are Open
\* once the batch is applied, and the sum of their rates over that number as
\* the average; the average is 0 when no shard is Open or the source unknown.
C12_UpdateShardsStats ==
    \A u \in SourceUids : \A b \in ShardInfoBatches :
        LET out == update_shards(shard_table, u, b)
        IN IF u \notin DOMAIN TE
           THEN out.ret = [num_open_shards |-> 0, avg_ingestion_rate |-> <<0, 1>>]
           ELSE LET new == out.self.table_entries[u].shard_entries
                    open == {s \in DOMAIN new : new[s].shard.shard_state = "Open"}
                IN /\ out.ret.num_open_shards = Cardinality(open)
                   /\ out.ret.avg_ingestion_rate =
                         IF open = {}
                         THEN <<0, 1>>
                         ELSE <<OpenRateSum(new, MaxShardId), Cardinality(open)>>

\* A source holds two Open shards; the batch closes one and gives the other a
\* rate: one open shard is counted, and its rate is the average.
C12_Witness ==
    /\ Running
    /\ \E u \in DOMAIN TE : \E b \in ShardInfoBatches : \E i \in DOMAIN b, j \in DOMAIN b :
          LET old == TE[u].shard_entries
              out == update_shards(shard_table, u, b)
          IN /\ b[i].shard_id \in DOMAIN old /\ b[j].shard_id \in DOMAIN old
             /\ old[b[i].shard_id].shard.shard_state = "Open" /\ b[i].shard_state = "Closed"
             /\ old[b[j].shard_id].shard.shard_state = "Open" /\ b[j].shard_state = "Open"
             /\ b[j].ingestion_rate > 0
             /\ out.ret = [num_open_shards |-> 1,
                           avg_ingestion_rate |-> <<b[j].ingestion_rate, 1>>]

\* C13: close_shards closes every listed shard the source holds that is not
\* Closed yet, Open or Unavailable, and returns exactly the ids it closed, each
\* once; Closed ids, unknown ids and an unknown source add nothing and do not
\* fail; nothing else of the table changes.
C13_CloseShardsClosesListed ==
    \A u \in SourceUids : \A ids \in ShardIdLists :
        LET out == close_shards(shard_table, u, ids)
            listed == {ids[k] : k \in DOMAIN ids}
            returned == {out.ret[k] : k \in DOMAIN out.ret}
        IN /\ out.panic = "none"
           /\ out.self.ingester_shards = IS
           /\ DOMAIN out.self.table_entries = DOMAIN TE
           /\ \A v \in (DOMAIN TE) \ {u} : out.self.table_entries[v] = TE[v]
           /\ Len(out.ret) = Cardinality(returned)
           /\ IF u \notin DOMAIN TE
              THEN out.ret = << >>
              ELSE LET old == TE[u].shard_entries
                       new == out.self.table_entries[u].shard_entries
                   IN /\ DOMAIN new = DOMAIN old
                      /\ out.self.table_entries[u] = [TE[u] EXCEPT !.shard_entries = new]
                      /\ \A s \in DOMAIN old :
                            new[s] = IF s \in listed
                                     THEN [old[s] EXCEPT !.shard.shard_state = "Closed"]
                                     ELSE old[s]
                      /\ returned = {s \in listed \cap DOMAIN old :
                                        old[s].shard.shard_state # "Closed"}

\* A list names an Unavailable shard, and a Closed shard or an id the source
\* does not hold: the Unavailable shard is closed and is the only id returned.
C13_Witness ==
    /\ Running
    /\ \E u \in DOMAIN TE : \E ids \in ShardIdLists : \E i \in DOMAIN ids, j \in DOMAIN ids :
          LET old == TE[u].shard_entries
              out == close_shards(shard_table, u, ids)
          IN /\ ids[i] \in DOMAIN old
             /\ old[ids[i]].shard.shard_state = "Unavailable"
             /\ ids[j] \in DOMAIN old => old[ids[j]].shard.shard_state = "Closed"
             /\ ids[j] # ids[i]
             /\ out.ret = <<ids[i]>>
             /\ out.self.table_entries[u].shard_entries[ids[i]].shard.shard_state = "Closed"

\* C14: a second close_shards with the same arguments, nothing in between,
\* returns an empty list and leaves the table as the first call left it.
C14_CloseShardsIdempotent ==
    \A u \in SourceUids : \A ids \in ShardIdLists :
        LET first == close_shards(shard_table, u, ids)
            second == close_shards(first.self, u, ids)
        IN /\ second.ret = << >>
           /\ second.self = first.self
           /\ second.panic = "none"

\* The first of the two calls closes a shard.
C14_Witness ==
    /\ Running
    /\ \E u \in DOMAIN TE : \E ids \in ShardIdLists :
          LET first == close_shards(shard_table, u, ids)
          IN /\ first.ret # << >>
             /\ first.self # shard_table
             /\ close_shards(first.self, u, ids).ret = << >>

---------------------------------------------------------------------------
(* Claims about the scaling permits, checked under SpecScaling.            *)

\* The limiter of a table entry a scaling mode names.
LimiterFor(table_entry, m) ==
    IF m = "Up" THEN table_entry.scaling_up_rate_limiter
    ELSE table_entry.scaling_down_rate_limiter

OtherMode(m) == IF m = "Up" THEN "Down" ELSE "Up"
BurstLimitFor(m) == IF m = "Up" THEN 5 ELSE 1
RefillPeriodFor(m) == IF m = "Up" THEN 12 ELSE 60
PermitsAsked == 1..MaxPermitsAsked

\* C15, as stated: None and no change on an unknown source; on a known source
\* Some(b), b the result of acquire(n) on the limiter of the mode, and a
\* successful acquire leaves that limiter with exactly n permits fewer than it
\* had before the call.
C15_AcquireLowersStoredPermitsByN ==
    \A u \in SourceUids : \A m \in ScalingModes : \A n \in PermitsAsked :
        LET out == acquire_scaling_permits(shard_table, u, m, n, now)
        IN IF u \notin DOMAIN TE
           THEN out.ret = NoneVal /\ out.self = shard_table
           ELSE /\ out.ret = Some(acquire(LimiterFor(TE[u], m), n, now).ok)
                /\ out.ret[2] =>
                      LimiterFor(out.self.table_entries[u], m).available_permits
                          = LimiterFor(TE[u], m).available_permits - n

\* C15, amended: as above, but a successful acquire leaves the limiter with
\* exactly n permits fewer than before the call when no refill is due at the
\* call; the other limiter, the shards and the other sources are untouched.
C15_AcquireDelegatesToLimiterOfMode ==
    \A u \in SourceUids : \A m \in ScalingModes : \A n \in PermitsAsked :
        LET out == acquire_scaling_permits(shard_table, u, m, n, now)
        IN /\ out.panic = "none"
           /\ IF u \notin DOMAIN TE
              THEN out.ret = NoneVal /\ out.self = shard_table
              ELSE LET old == LimiterFor(TE[u], m)
                       new == LimiterFor(out.self.table_entries[u], m)
                   IN /\ out.ret = Some(acquire(old, n, now).ok)
                      /\ new = acquire(old, n, now).limiter
                      /\ (out.ret[2] /\ now < old.refill_at) =>
                            new.available_permits = old.available_permits - n
                      /\ LimiterFor(out.self.table_entries[u], OtherMode(m))
                            = LimiterFor(TE[u], OtherMode(m))
                      /\ out.self.table_entries[u].shard_entries = TE[u].shard_entries
                      /\ out.self.ingester_shards = IS
                      /\ DOMAIN out.self.table_entries = DOMAIN TE
                      /\ \A v \in (DOMAIN TE) \ {u} : out.self.table_entries[v] = TE[v]

\* After a refill the limiter holds permits and no further refill is due: the
\* acquire succeeds and leaves exactly n permits fewer than before the call.
C15_Witness ==
    /\ Running
    /\ ScalingSource \in DOMAIN TE
    /\ \E m \in ScalingModes : \E n \in PermitsAsked :
          LET old == LimiterFor(TE[ScalingSource], m)
              out == acquire_scaling_permits(shard_table, ScalingSource, m, n, now)
              new == LimiterFor(out.self.table_entries[ScalingSource], m)
          IN /\ old.refill_at > old.settings.refill_period + since_created[ScalingSource].created_at
             /\ now < old.refill_at
             /\ out.ret = Some(TRUE)
             /\ new.available_permits = old.available_permits - n

\* C16: on a known source, a successful acquire of n permits followed by the
\* release of n permits in the same mode, no refill falling in between, gives
\* the limiter the permits it had before the acquire; release on an unknown
\* source changes nothing.
C16_AcquireThenReleaseRestores ==
    \A u \in SourceUids : \A m \in ScalingModes : \A n \in PermitsAsked :
        IF u \notin DOMAIN TE
        THEN /\ release_scaling_permits(shard_table, u, m, n).self = shard_table
             /\ release_scaling_permits(shard_table, u, m, n).panic = "none"
        ELSE LET acquired == acquire_scaling_permits(shard_table, u, m, n, now)
                 released == release_scaling_permits(acquired.self, u, m, n)
             IN (acquired.ret[2] /\ now < LimiterFor(TE[u], m).refill_at) =>
                   /\ LimiterFor(released.self.table_entries[u], m).available_permits
                         = LimiterFor(TE[u], m).available_permits
                   /\ released.self = shard_table
                   /\ released.panic = "none"

\* An acquire succeeds with no refill due and takes permits; the release gives
\* them back.
C16_Witness ==
    /\ Running
    /\ ScalingSource \in DOMAIN TE
    /\ \E m \in ScalingModes : \E n \in PermitsAsked :
          LET acquired == acquire_scaling_permits(shard_table, ScalingSource, m, n, now)
              released == release_scaling_permits(acquired.self, ScalingSource, m, n)
          IN /\ now < LimiterFor(TE[ScalingSource], m).refill_at
             /\ LimiterFor(TE[ScalingSource], m).available_permits
                   < LimiterFor(TE[ScalingSource], m).settings.burst_limit
             /\ acquired.ret = Some(TRUE)
             /\ acquired.self # shard_table
             /\ released.self = shard_table

\* C17, as stated: in every limiter state, release of n permits followed by
\* acquire of n permits leaves available_permits as it was.
C17_ReleaseThenAcquireNoOp ==
    \A u \in DOMAIN TE : \A m \in ScalingModes : \A n \in PermitsAsked :
        LET released == release_scaling_permits(shard_table, u, m, n)
            acquired == acquire_scaling_permits(released.self, u, m, n, now)
        IN LimiterFor(acquired.self.table_entries[u], m).available_permits
              = LimiterFor(TE[u], m).available_permits

\* C17, amended: release of n permits followed by acquire of n permits leaves
\* available_permits as it was whenever the bucket has room for the n permits
\* (available_permits + n <= burst_limit) and no refill is due at the acquire.
C17_ReleaseThenAcquireNoOpWithRoom ==
    \A u \in DOMAIN TE : \A m \in ScalingModes : \A n \in PermitsAsked :
        LET old == LimiterFor(TE[u], m)
            released == release_scaling_permits(shard_table, u, m, n)
            acquired == acquire_scaling_permits(released.self, u, m, n, now)
        IN (old.available_permits + n <= BurstLimitFor(m) /\ now < old.refill_at) =>
              /\ acquired.ret = Some(TRUE)
              /\ LimiterFor(acquired.self.table_entries[u], m).available_permits
                    = old.available_permits
              /\ acquired.self = shard_table

\* A limiter that is not full, no refill due: the release adds the permits and
\* the acquire takes them back.
C17_Witness ==
    /\ Running
    /\ ScalingSource \in DOMAIN TE
    /\ \E m \in ScalingModes : \E n \in PermitsAsked :
          LET old == LimiterFor(TE[ScalingSource], m)
              released == release_scaling_permits(shard_table, ScalingSource, m, n)
              acquired == acquire_scaling_permits(released.self, ScalingSource, m, n, now)
          IN /\ old.available_permits + n <= BurstLimitFor(m)
             /\ now < old.refill_at
             /\ released.self # shard_table
             /\ acquired.self = shard_table

C19_AcquireAllOrNothing ==
    \A u \in DOMAIN TE : \A m \in ScalingModes : \A n \in PermitsAsked :
        LET old == LimiterFor(TE[u], m)
            refilled == refill(old, now).available_permits
            out == acquire_scaling_permits(shard_table, u, m, n, now)
            new == LimiterFor(out.self.table_entries[u], m)
        IN IF refilled >= n
           THEN out.ret = Some(TRUE) /\ new.available_permits = refilled - n
           ELSE /\ out.ret = Some(FALSE)
                /\ new.available_permits = refilled
                /\ now < old.refill_at => new = old

\* An acquire is denied while permits are left, fewer than asked for.
C19_Witness ==
    /\ Running
    /\ ScalingSource \in DOMAIN TE
    /\ \E m \in ScalingModes : \E n \in PermitsAsked :
          LET old == LimiterFor(TE[ScalingSource], m)
              out == acquire_scaling_permits(shard_table, ScalingSource, m, n, now)
          IN /\ 0 < refill(old, now).available_permits
             /\ refill(old, now).available_permits < n
             /\ out.ret = Some(FALSE)
             /\ LimiterFor(out.self.table_entries[ScalingSource], m).available_permits
                   = refill(old, now).available_permits

\* C20: the available permits of every limiter stay between 0 and burst_limit
\* (5 for scaling up, 1 for scaling down): a release adds its permits up to
\* burst_limit, and a refill never goes above burst_limit.
C20_PermitsWithinBurstLimit ==
    \A u \in DOMAIN TE : \A m \in ScalingModes :
        LET limiter == LimiterFor(TE[u], m)
        IN /\ limiter.available_permits \in 0..BurstLimitFor(m)
           /\ refill(limiter, now).available_permits \in 0..BurstLimitFor(m)
           /\ \A n \in PermitsAsked :
                 LimiterFor(release_scaling_permits(shard_table, u, m, n).self.table_entries[u], m)
                       .available_permits
                    = IF limiter.available_permits + n <= BurstLimitFor(m)
                      THEN limiter.available_permits + n
                      ELSE BurstLimitFor(m)

\* Permits were released into a bucket that was full since the source entry
\* was created: the bucket holds burst_limit permits, not more.
C20_Witness ==
    /\ ScalingSource \in DOMAIN since_created
    /\ last.op = "release_scaling_permits"
    /\ \E m \in ScalingModes :
          /\ since_created[ScalingSource].released[m]
          /\ since_created[ScalingSource].granted[m] = 0
          /\ LimiterFor(TE[ScalingSource], m).available_permits = BurstLimitFor(m)

---------------------------------------------------------------------------
(* Claims about the refill increment, checked under SpecScaling.           *)

\* The limiter of the scaling source after the call that takes every permit it
\* holds at the present instant.
EmptiedLimiter(m) ==
    LET old == LimiterFor(TE[ScalingSource], m)
    IN acquire(old, refill(old, now).available_permits, now).limiter

---------------------------------------------------------------------------
(* Claims about add_source and the life of a shard entry, checked under    *)
(* Spec.                                                                   *)

ShardsLeavingTable ==
    { <<u, s>> \in SourceUids \X ShardIds :
        /\ u \in DOMAIN shard_table.table_entries
        /\ s \in DOMAIN shard_table.table_entries[u].shard_entries
        /\ \/ u \notin DOMAIN shard_table'.table_entries
           \/ s \notin DOMAIN shard_table'.table_entries[u].shard_entries }

---------------------------------------------------------------------------
(* Claims about check_invariant and num_shards.                            *)

\* Every stored shard carries the key it is stored under.
StoredShardsMatchKeys(self) ==
    \A u \in DOMAIN self.table_entries :
        \A s \in DOMAIN self.table_entries[u].shard_entries :
            /\ s = self.table_entries[u].shard_entries[s].shard.shard_id
            /\ u.index_uid = self.table_entries[u].shard_entries[s].shard.index_uid
            /\ u.source_id = self.table_entries[u].shard_entries[s].shard.source_id

\* C24: the walk of check_invariant passes exactly when the triples of
\* table_entries are the triples of ingester_shards (stated of the tables whose
\* stored shards carry their keys; checked under SpecInPlace).
C24_CheckAcceptsExactlyMatchingIndices ==
    (Running /\ StoredShardsMatchKeys(shard_table)) =>
        (check_invariant_passes(shard_table)
            <=> TableTriples(shard_table) = IngesterTriples(shard_table))

\* The (source_uid, shard_id) keys of the stored ShardEntry values.
StoredShardKeys(self) ==
    { <<u, s>> \in (DOMAIN self.table_entries) \X ShardIds :
        s \in DOMAIN self.table_entries[u].shard_entries }

\* C25: num_shards() is the number of stored ShardEntry values and, when every
\* stored shard has a leader and no follower, also the number of shard ids held
\* in ingester_shards over all nodes and sources (checked under Spec).
C25_NumShardsCountsBothIndices ==
    Running =>
        /\ num_shards(shard_table) = Cardinality(StoredShardKeys(shard_table))
        /\ (\A p \in StoredShardKeys(shard_table) :
               Cardinality(ingester_nodes(TE[p[1]].shard_entries[p[2]].shard)) = 1)
              => num_shards(shard_table) = Cardinality(IngesterTriples(shard_table))

---------------------------------------------------------------------------
(* Claims about insertion, deletion and the node keys, checked under Spec. *)

\* C26: insert_newly_opened_shards on an unknown source, no shard of the batch
\* mismatching, creates an entry with the default, full limiters that holds
\* every shard of the batch whatever its state, and list_shards on the source,
\* None before the call, returns Some of these entries after it.
C26_InsertOnUnknownSourceCreatesEntry ==
    CanCall =>
    \A u \in SourceUids \ DOMAIN TE : \A b \in ShardBatches[u] :
        LET out == insert_newly_opened_shards(shard_table, u.index_uid, u.source_id, b, now)
            created == out.self.table_entries[u]
        IN (out.panic # MismatchPanic) =>
              /\ u \in DOMAIN out.self.table_entries
              /\ created.scaling_up_rate_limiter
                    = from_settings(SCALING_UP_RATE_LIMITER_SETTINGS, now)
              /\ created.scaling_down_rate_limiter
                    = from_settings(SCALING_DOWN_RATE_LIMITER_SETTINGS, now)
              /\ created.scaling_up_rate_limiter.available_permits = 5
              /\ created.scaling_down_rate_limiter.available_permits = 1
              /\ DOMAIN created.shard_entries = {b[i].shard_id : i \in DOMAIN b}
              /\ \A i \in DOMAIN b :
                    created.shard_entries[b[i].shard_id] = [shard |-> b[i], ingestion_rate |-> 0]
              /\ list_shards(shard_table, u) = NoneVal
              /\ list_shards(out.self, u)
                    = Some({[shard |-> b[i], ingestion_rate |-> 0] : i \in DOMAIN b})
              /\ \A v \in DOMAIN TE : out.self.table_entries[v] = TE[v]

\* An insert_newly_opened_shards has just created the entry of a source with
\* an Unavailable shard, a Closed shard and full limiters.
C26_Witness ==
    /\ Running
    /\ last.op = "insert_newly_opened_shards"
    /\ nops = 1
    /\ \E u \in DOMAIN TE :
          /\ list_shards(shard_table, u) # NoneVal
          /\ TE[u].scaling_up_rate_limiter.available_permits = 5
          /\ TE[u].scaling_down_rate_limiter.available_permits = 1
          /\ {TE[u].shard_entries[s].shard.shard_state : s \in DOMAIN TE[u].shard_entries}
                = {"Unavailable", "Closed"}

\* C27: no reachable state has hit the inconsistent-state panic, none of
\* delete_shards, delete_source and delete_index hits it on any argument, and
\* for every stored shard ingester_shards has an entry for each of its nodes
\* and, under it, an entry for the source of the shard.
C27_DeleteFindsIngesterEntries ==
    /\ panicked # InconsistentPanic
    /\ Running =>
          /\ \A u \in DOMAIN TE : \A s \in DOMAIN TE[u].shard_entries :
                \A n \in ingester_nodes(TE[u].shard_entries[s].shard) :
                    n \in DOMAIN IS /\ u \in DOMAIN IS[n]
          /\ \A u \in SourceUids :
                /\ delete_source(shard_table, u.index_uid, u.source_id).panic # InconsistentPanic
                /\ \A ids \in ShardIdLists :
                      delete_shards(shard_table, u, ids).panic # InconsistentPanic
          /\ \A i \in IndexIds : delete_index(shard_table, i).panic # InconsistentPanic

\* A stored shard with a leader and a follower is deleted: both of its nodes
\* are found in ingester_shards and lose its id.
C27_Witness ==
    /\ Running
    /\ \E u \in DOMAIN TE : \E s \in DOMAIN TE[u].shard_entries :
          LET shard == TE[u].shard_entries[s].shard
              out == delete_shards(shard_table, u, <<s>>)
          IN /\ shard.follower_ids # {}
             /\ out.panic = "none"
             /\ s \notin DOMAIN out.self.table_entries[u].shard_entries
             /\ \A n \in ingester_nodes(shard) :
                   s \in IS[n][u] /\ s \notin out.self.ingester_shards[n][u]

\* C28: when a shard of the batch mismatches the source, whatever its place in
\* the batch, insert_newly_opened_shards panics and table_entries and
\* ingester_shards are as before the call.
C28_InsertChecksBatchBeforeMutating ==
    CanCall =>
    \A u \in SourceUids : \A b \in ShardBatches[u] :
        LET out == insert_newly_opened_shards(shard_table, u.index_uid, u.source_id, b, now)
        IN (\E i \in DOMAIN b : b[i].index_uid # u.index_uid \/ b[i].source_id # u.source_id) =>
              /\ out.panic = MismatchPanic
              /\ out.self.table_entries = TE
              /\ out.self.ingester_shards = IS

\* On a table that holds shards, a batch whose first shard matches the source,
\* is not known to the table and names a node without entry, and whose second
\* shard mismatches: the call panics and nothing of the first shard is kept.
C28_Witness ==
    /\ Running
    /\ IS # EmptyMap
    /\ \E u \in DOMAIN TE : \E b \in ShardBatches[u] :
          LET out == insert_newly_opened_shards(shard_table, u.index_uid, u.source_id, b, now)
          IN /\ Len(b) = 2
             /\ SourceUidMatches(u, b[1])
             /\ ~SourceUidMatches(u, b[2])
             /\ b[1].shard_id \notin DOMAIN TE[u].shard_entries
             /\ ingester_nodes(b[1]) \ DOMAIN IS # {}
             /\ out.panic = MismatchPanic
             /\ out.self = shard_table

\* C30: ingester_shards has no node key in the initial table; a call of
\* insert_newly_opened_shards that passes the check of the batch, and a call of
\* initialize_source_shards, leave as node keys the keys of before and the
\* leaders and followers of the batch; no step of any call removes a node key
\* and a step of another call adds none: list_shards_for_node(n) is None until
\* a batch names n and Some, of possibly empty sets, ever after.
C30_NodeKeysNeverRemoved ==
    /\ [](/\ (nops = 0) => \A n \in NodeIds : list_shards_for_node(shard_table, n) = NoneVal
          /\ \A n \in NodeIds :
                (list_shards_for_node(shard_table, n) = NoneVal) <=> (n \notin DOMAIN IS)
          /\ CanCall =>
                \A u \in SourceUids : \A b \in ShardBatches[u] :
                    LET named == UNION {ingester_nodes(b[i]) : i \in DOMAIN b}
                        inserted == insert_newly_opened_shards(shard_table, u.index_uid,
                                                               u.source_id, b, now)
                        initialized == initialize_source_shards(shard_table, u, b, now)
                    IN /\ DOMAIN initialized.self.ingester_shards = (DOMAIN IS) \cup named
                       /\ DOMAIN inserted.self.ingester_shards
                             = IF inserted.panic = MismatchPanic
                               THEN DOMAIN IS
                               ELSE (DOMAIN IS) \cup named
                       /\ \A n \in NodeIds :
                             (list_shards_for_node(initialized.self, n) = NoneVal)
                                <=> (n \notin (DOMAIN IS) \cup named))
    /\ [][ /\ DOMAIN IS \subseteq DOMAIN shard_table'.ingester_shards
           /\ \A n \in NodeIds :
                 list_shards_for_node(shard_table, n) # NoneVal
                    => list_shards_for_node(shard_table', n) # NoneVal
           /\ last'.op \notin {"insert_newly_opened_shards", "initialize_source_shards"}
                 => DOMAIN shard_table'.ingester_shards = DOMAIN IS ]_vars

\* A delete has left a node of ingester_shards without any shard id:
\* list_shards_for_node still returns Some for it.
C30_Witness ==
    /\ Running
    /\ last.op \in {"delete_shards", "delete_source", "delete_index"}
    /\ \E n \in DOMAIN IS :
          /\ DOMAIN IS[n] # {}
          /\ \A u \in DOMAIN IS[n] : IS[n][u] = {}
          /\ list_shards_for_node(shard_table, n) = Some(IS[n])

---------------------------------------------------------------------------
(* Claims about add_source and the limiters, checked under SpecScaling.    *)

\* C29: add_source on a known source leaves both limiters fresh and full (5
\* up, 1 down), whatever permits the previous entry had left: right after it an
\* acquire of up to the burst limit is granted in each mode, also when the same
\* acquire right before it is denied.
C29_AddSourceResetsLimiters ==
    ScalingSource \in DOMAIN TE =>
        LET out == add_source(shard_table, ScalingSource.index_uid,
                              ScalingSource.source_id, now)
            replaced == out.self.table_entries[ScalingSource]
        IN /\ replaced.scaling_up_rate_limiter
                 = from_settings(SCALING_UP_RATE_LIMITER_SETTINGS, now)
           /\ replaced.scaling_down_rate_limiter
                 = from_settings(SCALING_DOWN_RATE_LIMITER_SETTINGS, now)
           /\ \A m \in ScalingModes :
                 /\ LimiterFor(replaced, m).available_permits = BurstLimitFor(m)
                 /\ \A n \in 1..BurstLimitFor(m) :
                       acquire_scaling_permits(out.self, ScalingSource, m, n, now).ret
                          = Some(TRUE)

\* Both limiters are empty and an acquire of one permit is denied in each
\* mode; after add_source on the source the same acquire is granted.
C29_Witness ==
    /\ Running
    /\ ScalingSource \in DOMAIN TE
    /\ \A m \in ScalingModes :
          LET out == add_source(shard_table, ScalingSource.index_uid,
                                ScalingSource.source_id, now)
          IN /\ LimiterFor(TE[ScalingSource], m).available_permits = 0
             /\ acquire_scaling_permits(shard_table, ScalingSource, m, 1, now).ret
                   = Some(FALSE)
             /\ out.panic = "none"
             /\ acquire_scaling_permits(out.self, ScalingSource, m, 1, now).ret = Some(TRUE)

---------------------------------------------------------------------------
(* Claims about what the calls leave alone.                                *)

\* The table `after` differs from `before` at most in the entry of source_uid,
\* and there at most in shard states, ingestion rates and the tokens of the
\* limiters: same sources, same shard ids, same leaders and followers, same
\* ingester_shards.
OnlyStatesRatesAndTokensOf(source_uid, before, after) ==
    /\ after.ingester_shards = before.ingester_shards
    /\ DOMAIN after.table_entries = DOMAIN before.table_entries
    /\ \A v \in (DOMAIN before.table_entries) \ {source_uid} :
          after.table_entries[v] = before.table_entries[v]
    /\ source_uid \in DOMAIN before.table_entries =>
          LET old == before.table_entries[source_uid]
              new == after.table_entries[source_uid]
          IN /\ DOMAIN new.shard_entries = DOMAIN old.shard_entries
             /\ \A s \in DOMAIN old.shard_entries :
                   new.shard_entries[s].shard
                      = [old.shard_entries[s].shard EXCEPT
                            !.shard_state = new.shard_entries[s].shard.shard_state]
             /\ new.scaling_up_rate_limiter.settings = old.scaling_up_rate_limiter.settings
             /\ new.scaling_down_rate_limiter.settings = old.scaling_down_rate_limiter.settings

\* C31: update_shards, close_shards, acquire_scaling_permits and
\* release_scaling_permits leave ingester_shards, the set of sources, the shard
\* ids of every source and the leader and followers of every shard as they
\* were, and change nothing outside the source they are called on; the first
\* two leave the limiters alone and the last two the shard entries.
C31_StateRateAndTokenCallsKeepPlacement ==
    \A u \in SourceUids :
        /\ \A b \in ShardInfoBatches :
              LET out == update_shards(shard_table, u, b)
              IN /\ out.panic = "none"
                 /\ OnlyStatesRatesAndTokensOf(u, shard_table, out.self)
                 /\ u \in DOMAIN TE =>
                       out.self.table_entries[u]
                          = [TE[u] EXCEPT !.shard_entries = out.self.table_entries[u].shard_entries]
        /\ \A ids \in ShardIdLists :
              LET out == close_shards(shard_table, u, ids)
              IN /\ out.panic = "none"
                 /\ OnlyStatesRatesAndTokensOf(u, shard_table, out.self)
                 /\ u \in DOMAIN TE =>
                       out.self.table_entries[u]
                          = [TE[u] EXCEPT !.shard_entries = out.self.table_entries[u].shard_entries]
        /\ \A m \in ScalingModes : \A n \in {1, MaxPermitsAsked} :
              LET acquired == acquire_scaling_permits(shard_table, u, m, n, now)
                  released == release_scaling_permits(shard_table, u, m, n)
              IN /\ acquired.panic = "none" /\ released.panic = "none"
                 /\ OnlyStatesRatesAndTokensOf(u, shard_table, acquired.self)
                 /\ OnlyStatesRatesAndTokensOf(u, shard_table, released.self)
                 /\ u \in DOMAIN TE =>
                       /\ acquired.self.table_entries[u].shard_entries = TE[u].shard_entries
                       /\ released.self.table_entries[u].shard_entries = TE[u].shard_entries

\* A source holds a shard with a leader and a follower and has given out a
\* permit: each of the four calls changes the table, and none of them changes
\* ingester_shards.
C31_Witness ==
    /\ Running
    /\ \E u \in DOMAIN TE : \E s \in DOMAIN TE[u].shard_entries :
       \E b \in ShardInfoBatches : \E m \in ScalingModes :
          LET updated == update_shards(shard_table, u, b).self
              closed == close_shards(shard_table, u, <<s>>).self
              acquired == acquire_scaling_permits(shard_table, u, m, 1, now).self
              released == release_scaling_permits(shard_table, u, m, 1).self
          IN /\ TE[u].shard_entries[s].shard.follower_ids # {}
             /\ updated # shard_table /\ updated.ingester_shards = IS
             /\ closed # shard_table /\ closed.ingester_shards = IS
             /\ acquired # shard_table /\ acquired.ingester_shards = IS
             /\ released # shard_table /\ released.ingester_shards = IS

\* The (source_uid, shard_id) keys of the stored shards that are Closed.
ClosedShardKeys(self) ==
    { p \in StoredShardKeys(self) :
        self.table_entries[p[1]].shard_entries[p[2]].shard.shard_state = "Closed" }

\* C32: a stored Closed shard is stored and Closed after update_shards,
\* close_shards and insert_newly_opened_shards on any argument; across every
\* step that does not panic a stored Closed shard is either stored and Closed
\* or no longer stored, and it is no longer stored only after delete_shards,
\* delete_source, delete_index or the replacement of the entry of its source by
\* add_source.
C32_ClosedIsAbsorbing ==
    /\ [](\A p \in ClosedShardKeys(shard_table) :
             /\ \A u \in SourceUids :
                   /\ \A b \in ShardInfoBatches :
                         p \in ClosedShardKeys(update_shards(shard_table, u, b).self)
                   /\ \A ids \in ShardIdLists :
                         p \in ClosedShardKeys(close_shards(shard_table, u, ids).self)
             /\ CanCall =>
                   \A u \in SourceUids : \A b \in ShardBatches[u] :
                       LET out == insert_newly_opened_shards(shard_table, u.index_uid,
                                                             u.source_id, b, now)
                       IN p \in ClosedShardKeys(out.self))
    /\ [][ panicked' = "none" =>
             \A p \in ClosedShardKeys(shard_table) :
                 \/ p \in ClosedShardKeys(shard_table')
                 \/ /\ p \notin StoredShardKeys(shard_table')
                    /\ last'.op \in {"delete_shards", "delete_source", "delete_index",
                                     "add_source"} ]_vars

\* A stored shard is Closed; a gossip batch names it Open, a batch of opened
\* shards brings it as Open on another leader and close_shards names it: it is
\* Closed, on its leader, after each of the three calls.
C32_Witness ==
    /\ Running
    /\ \E p \in ClosedShardKeys(shard_table) :
       \E infos \in ShardInfoBatches : \E b \in ShardBatches[p[1]] :
          LET u == p[1]
              s == p[2]
              updated == update_shards(shard_table, u, infos).self
              inserted == insert_newly_opened_shards(shard_table, u.index_uid,
                                                     u.source_id, b, now)
              closed == close_shards(shard_table, u, <<s>>)
          IN /\ \E i \in DOMAIN infos :
                   infos[i].shard_id = s /\ infos[i].shard_state = "Open"
             /\ \E i \in DOMAIN b :
                   /\ b[i].shard_id = s /\ b[i].shard_state = "Open"
                   /\ b[i].leader_id # TE[u].shard_entries[s].shard.leader_id
             /\ inserted.panic # MismatchPanic
             /\ updated.table_entries[u].shard_entries[s].shard = TE[u].shard_entries[s].shard
             /\ inserted.self.table_entries[u].shard_entries[s] = TE[u].shard_entries[s]
             /\ closed.self = shard_table /\ closed.ret = << >>

\* list_shards_for_node(n) looked up at a source: Some of the shard ids the
\* node holds for the source, None when the node or the source has no entry.
IdsOfSourceOn(self, n, v) ==
    IF n \in DOMAIN self.ingester_shards /\ v \in DOMAIN self.ingester_shards[n]
    THEN Some(self.ingester_shards[n][v])
    ELSE NoneVal

\* The table `after` holds for every source other than source_uid what
\* `before` holds: the same entry (shards and limiters) or none, and the same
\* shard ids on every node.
OtherSourcesUntouched(source_uid, before, after) ==
    /\ (DOMAIN after.table_entries) \ {source_uid}
          = (DOMAIN before.table_entries) \ {source_uid}
    /\ \A v \in (DOMAIN before.table_entries) \ {source_uid} :
          after.table_entries[v] = before.table_entries[v]
    /\ \A n \in NodeIds : \A v \in SourceUids \ {source_uid} :
          IdsOfSourceOn(after, n, v) = IdsOfSourceOn(before, n, v)

\* C33: each call addressed to a source leaves every other source as it was,
\* its shard entries, its limiters and its shard ids in ingester_shards, also
\* when the other source holds a shard of the same id on the same node.
C33_OtherSourcesUntouched ==
    \A u \in SourceUids :
        /\ OtherSourcesUntouched(u, shard_table,
                                 delete_source(shard_table, u.index_uid, u.source_id).self)
        /\ \A ids \in ShardIdLists :
              OtherSourcesUntouched(u, shard_table, delete_shards(shard_table, u, ids).self)
        /\ CanCall =>
              /\ \A ids \in ShardIdLists :
                    OtherSourcesUntouched(u, shard_table, close_shards(shard_table, u, ids).self)
              /\ \A b \in ShardInfoBatches :
                    OtherSourcesUntouched(u, shard_table, update_shards(shard_table, u, b).self)
              /\ \A m \in ScalingModes :
                    /\ OtherSourcesUntouched(u, shard_table,
                           acquire_scaling_permits(shard_table, u, m, 1, now).self)
                    /\ OtherSourcesUntouched(u, shard_table,
                           release_scaling_permits(shard_table, u, m, 1).self)
              /\ \A b \in ShardBatches[u] :
                    OtherSourcesUntouched(u, shard_table,
                        insert_newly_opened_shards(shard_table, u.index_uid, u.source_id,
                                                   b, now).self)

\* Two generations of an index hold a shard of the same id on the same node:
\* delete_shards and delete_source on one of them take its shard away, from
\* the table and from the node, and leave the shard of the other.
C33_Witness ==
    /\ Running
    /\ \E u \in DOMAIN TE : \E v \in (DOMAIN TE) \ {u} : \E s \in ShardIds : \E n \in DOMAIN IS :
          LET shards_deleted == delete_shards(shard_table, u, <<s>>)
              source_deleted == delete_source(shard_table, u.index_uid, u.source_id)
          IN /\ index_id(u.index_uid) = index_id(v.index_uid)
             /\ s \in DOMAIN TE[u].shard_entries /\ s \in DOMAIN TE[v].shard_entries
             /\ IdsOfSourceOn(shard_table, n, u) = Some({s})
             /\ IdsOfSourceOn(shard_table, n, v) = Some({s})
             /\ shards_deleted.panic = "none" /\ source_deleted.panic = "none"
             /\ IdsOfSourceOn(shards_deleted.self, n, u) = Some({})
             /\ IdsOfSourceOn(shards_deleted.self, n, v) = Some({s})
             /\ IdsOfSourceOn(source_deleted.self, n, u) = Some({})
             /\ IdsOfSourceOn(source_deleted.self, n, v) = Some({s})
             /\ shards_deleted.self.table_entries[v] = TE[v]
             /\ source_deleted.self.table_entries[v] = TE[v]

---------------------------------------------------------------------------
(* Claims about the two limiters of a source, checked under SpecScaling.   *)

\* C34: acquire_scaling_permits and release_scaling_permits in a mode, alone
\* or one after the other, leave the limiter of the other mode of the source
\* as it was, its available permits included, whether the acquire is granted
\* or denied.
C34_OtherModeLimiterUntouched ==
    \A u \in DOMAIN TE : \A m \in ScalingModes : \A n \in PermitsAsked :
        LET other == LimiterFor(TE[u], OtherMode(m))
            acquired == acquire_scaling_permits(shard_table, u, m, n, now).self
            released == release_scaling_permits(shard_table, u, m, n).self
            both == release_scaling_permits(acquired, u, m, n).self
        IN /\ LimiterFor(acquired.table_entries[u], OtherMode(m)) = other
           /\ LimiterFor(released.table_entries[u], OtherMode(m)) = other
           /\ LimiterFor(both.table_entries[u], OtherMode(m)) = other
           /\ LimiterFor(both.table_entries[u], OtherMode(m)).available_permits
                 = other.available_permits

\* The scaling-up limiter has given out permits and is due for a refill; a
\* Down acquire is granted and followed by a Down release: the scaling-down
\* limiter changes and changes back, the scaling-up limiter keeps its permits.
C34_Witness ==
    /\ Running
    /\ ScalingSource \in DOMAIN TE
    /\ LET up == TE[ScalingSource].scaling_up_rate_limiter
           acquired == acquire_scaling_permits(shard_table, ScalingSource, "Down", 1, now)
           released == release_scaling_permits(acquired.self, ScalingSource, "Down", 1)
       IN /\ up.available_permits < 5
          /\ now >= up.refill_at
          /\ acquired.ret = Some(TRUE)
          /\ acquired.self.table_entries[ScalingSource].scaling_down_rate_limiter
                # TE[ScalingSource].scaling_down_rate_limiter
          /\ released.self.table_entries[ScalingSource].scaling_down_rate_limiter.available_permits = 1
          /\ acquired.self.table_entries[ScalingSource].scaling_up_rate_limiter = up
          /\ released.self.table_entries[ScalingSource].scaling_up_rate_limiter = up

---------------------------------------------------------------------------
(* Claims about the IndexSerializer, checked under SpecSerializer.         *)

\* The messages the packager was delivered for the messages handled so far:
\* what was handed to ctx.send_message in the handlers that returned Ok.
RECURSIVE Delivered(_)
Delivered(history) ==
    IF history = << >>
    THEN << >>
    ELSE LET h == history[Len(history)]
         IN Delivered(SubSeq(history, 1, Len(history) - 1))
               \o (IF h.reply = "Ok" THEN h.sent ELSE << >>)

====
